---- MODULE Spec2Model ----
(***************************************************************************)
(* Shared-list application (NotepadApp): the item view of one list with    *)
(* its optimistic mutations and reposition gestures, and the store's       *)
(* server-side sharing procedure.                                          *)
(*                                                                         *)
(* src/app/list/[id]/page.tsx holds two revisions of the item view:        *)
(*   "drag"     lines 1-667    (HTML5 drag and drop, swap moveItem)        *)
(*   "stepwise" lines 668-1492 (up/down buttons, saveNewPositions)         *)
(* The variable revision says which one the client runs.                   *)
(***************************************************************************)
EXTENDS Integers, Sequences, FiniteSets, TLC

(***************************************************************************)
(* Bounds of the model.                                                    *)
(***************************************************************************)
\* requests the client may issue in one behaviour (the load fetch is the first)
MaxReq == 3
\* writes other collaborators may apply to the list's items in one behaviour
MaxOther == 1
\* calls of the store's procedures in one behaviour of the sharing model
MaxCalls == 4

ItemIds == {"A", "B", "C"}
\* the id the store gives the entity the add form creates
NewId == "D"
RowIds == ItemIds \cup {NewId}
NoId == "-"

\* created_at of the rows the store holds at the start (distinct timestamps)
Created0 == [i \in ItemIds |-> CASE i = "A" -> 1 [] i = "B" -> 2 [] OTHER -> 3]

VARIABLES
    revision,     \* "drag" | "stepwise": the revision of the item view
    store,        \* table items of this list: id -> row
    clock,        \* the store's now(), as a counter
    items,        \* useState items: the local ordered collection
    loading,      \* useState loading
    draggedItem,  \* useState draggedItem (drag revision)
    net,          \* requests in flight, each with its continuation
    nreq,         \* number of requests issued so far
    others,       \* number of writes by other collaborators so far
    notify,       \* a postgres_changes event is pending for the view's channel
    last,         \* the failure handling that ran in the last step, if any
    form,         \* the add form: useState adding, newItemText, and whether
                  \* the new entity's insert has been issued
    profiles,     \* table profiles: the accounts that exist
    lists,        \* table lists: list -> created_by
    members,      \* table list_members: (list, account) -> number of rows
    ncalls,       \* number of procedure calls so far
    rpc,          \* the last procedure call and its outcome
    listRows,     \* per list: the list's name and its item, as stored
    itemBy,       \* per list: created_by of its item (null: none)
    seen,         \* what the last read by a client's view showed
    session,      \* supabase.auth holds a session
    sessionCheck, \* the mount effect's getSession(): "pending" | "settled"
    user,         \* useState user is set
    route,        \* where the router is: "view" | "login" | "away"
    mounted,      \* the view's component is mounted
    effectUser,   \* the value of user the realtime effect last ran with
    channels,     \* number of realtime channels of the view that are subscribed
    list,         \* useState list: bg_url and custom_icon_url as the view holds them
    media,        \* the list's row: bg_url and custom_icon_url as stored
    uploading,    \* useState uploading: "bg" | "icon" | "null"
    toast,        \* useState toast
    nfiles,       \* number of files the storage bucket has accepted
    counting,     \* fetchLists' count queries for one list: how far they are,
                  \* and totalCount and uncheckedCount as answered
    shown,        \* item_count and unchecked_count of that list in useState lists
    shareEmail,   \* useState shareEmail ("": empty)
    sharing,      \* useState sharing
    modes,        \* useState isSorting, isEditingItems (isEditing), editingItemId
                  \* (editingListId)
    sw            \* the service worker: its state, the caches of the origin and
                  \* what its fetch listener did with the last request

itemVars == <<revision, store, clock, items, loading, draggedItem, net, nreq,
              others, notify, last, form>>
shareVars == <<profiles, lists, members, ncalls, rpc, listRows, itemBy, seen>>
vars == <<revision, store, clock, items, loading, draggedItem, net, nreq,
          others, notify, last, form, profiles, lists, members, ncalls, rpc, listRows, itemBy, seen,
          session, sessionCheck, user, route, mounted, effectUser, channels,
          list, media, uploading, toast, nfiles, counting, shown, shareEmail, sharing,
          modes, sw>>
sessionVars == <<session, sessionCheck, user, route, mounted, effectUser, channels>>
mediaVars == <<list, media, uploading, toast, nfiles>>
countVars == <<counting, shown>>
shareFormVars == <<shareEmail, sharing>>
modeVars == <<modes>>
swVars == <<sw>>
pageVars == <<sessionVars, mediaVars, countVars, shareFormVars, modeVars, swVars>>
notSession == <<shareVars, mediaVars, countVars, shareFormVars, modeVars, swVars>>
notMedia == <<shareVars, sessionVars, countVars, shareFormVars, modeVars, swVars>>
notCounts == <<shareVars, sessionVars, mediaVars, shareFormVars, modeVars, swVars>>

(***************************************************************************)
(* Sequences as JavaScript arrays (0-based indices are kept 1-based here). *)
(***************************************************************************)
\* items.filter(i => i.checked === c)
Partition(s, c) == SelectSeq(s, LAMBDA x : x.checked = c)

\* prev.filter(i => i.id !== id)
WithoutId(s, id) == SelectSeq(s, LAMBDA x : x.id # id)

\* s.findIndex(i => i.id === id), 0-based, -1 when absent
FindIndexById(s, id) ==
    IF \E k \in 1..Len(s) : s[k].id = id
    THEN (CHOOSE k \in 1..Len(s) : s[k].id = id /\ \A j \in 1..(k - 1) : s[j].id # id) - 1
    ELSE -1

\* s.indexOf(item): the same object, 0-based, -1 when absent
IndexOf(s, item) ==
    IF \E k \in 1..Len(s) : s[k] = item
    THEN (CHOOSE k \in 1..Len(s) : s[k] = item /\ \A j \in 1..(k - 1) : s[j] # item) - 1
    ELSE -1

\* Array.prototype.splice(start, 1): a negative start counts from the end
SpliceOut(s, start) ==
    LET n == Len(s)
        st == IF start < 0 THEN (IF n + start < 0 THEN 0 ELSE n + start)
              ELSE (IF start > n THEN n ELSE start)
    IN  IF st >= n THEN s
        ELSE SubSeq(s, 1, st) \o SubSeq(s, st + 2, n)

\* Array.prototype.splice(start, 0, x)
SpliceIn(s, start, x) ==
    LET n == Len(s)
        st == IF start < 0 THEN (IF n + start < 0 THEN 0 ELSE n + start)
              ELSE (IF start > n THEN n ELSE start)
    IN  SubSeq(s, 1, st) \o <<x>> \o SubSeq(s, st + 1, n)

Ids(s) == [k \in 1..Len(s) |-> s[k].id]
IdSet(s) == {s[k].id : k \in 1..Len(s)}

(***************************************************************************)
(* The store: table public.items, restricted to the open list.             *)
(***************************************************************************)
NoRow == [present |-> FALSE, checked |-> FALSE, position |-> 0, created_at |-> 0]

\* the local copy of a row: interface Item (text and url are not modelled)
LocalItem(st, i) == [id |-> i, checked |-> st[i].checked, position |-> st[i].position]

NoItem == [id |-> NoId, checked |-> FALSE, position |-> 0]

\* the add form as mounted: useState(false), useState('')
NoForm == [adding |-> FALSE, text |-> "", made |-> FALSE]

\* the order with the last key ascending
BeforeOldestFirst(st, i, j) ==
    \/ (~st[i].checked) /\ st[j].checked
    \/ st[i].checked = st[j].checked /\ st[i].position < st[j].position
    \/ st[i].checked = st[j].checked /\ st[i].position = st[j].position
       /\ st[i].created_at < st[j].created_at

\* .order('checked', asc).order('position', asc).order('created_at', desc)
Before(st, i, j) ==
    \/ (~st[i].checked) /\ st[j].checked
    \/ st[i].checked = st[j].checked /\ st[i].position < st[j].position
    \/ st[i].checked = st[j].checked /\ st[i].position = st[j].position
       /\ st[i].created_at > st[j].created_at

\* neither row is ordered before the other by the three sort keys
Tied(st, i, j) == ~Before(st, i, j) /\ ~Before(st, j, i)

\* fetchItems' query: select * from items where list_id = listId order by the
\* three keys.  Rows tied on all three come in whatever order the store picks,
\* so the query has a set of possible results.
FetchItems(st) ==
    LET P == {i \in RowIds : st[i].present}
        n == Cardinality(P)
        orders == {f \in [1..n -> P] :
                     /\ \A k, l \in 1..n : k # l => f[k] # f[l]
                     /\ \A k, l \in 1..n : k < l => ~Before(st, f[l], f[k])}
    IN  {[k \in 1..n |-> LocalItem(st, f[k])] : f \in orders}

\* an update that also puts the row at the column default position
UpdateCheckedAndPosition(st, i, c) ==
    IF st[i].present THEN [st EXCEPT ![i].checked = c, ![i].position = 0] ELSE st

\* update items set checked = c where id = i (no row, no change, no error)
UpdateChecked(st, i, c) ==
    IF st[i].present THEN [st EXCEPT ![i].checked = c] ELSE st

\* update items set position = p where id = i
UpdatePosition(st, i, p) ==
    IF st[i].present THEN [st EXCEPT ![i].position = p] ELSE st

\* delete from items where id = i
DeleteRow(st, i) == [st EXCEPT ![i] = NoRow]

\* an upsert that leaves a row that exists as it is (on conflict do nothing)
UpsertRowFirstWins(st, r, withChecked, now) ==
    IF st[r.id].present THEN st
    ELSE [st EXCEPT ![r.id] = [present |-> TRUE,
                               checked |-> IF withChecked THEN r.checked ELSE FALSE,
                               position |-> r.position,
                               created_at |-> now]]

\* upsert(updates, { onConflict: 'id' }): insert ... on conflict (id) do update
\* set <the columns given>.  A row that is missing is inserted, with the
\* column defaults (checked false, created_at now()) for what is not given.
UpsertRow(st, r, withChecked, now) ==
    IF st[r.id].present
    THEN [st EXCEPT ![r.id].position = r.position,
                    ![r.id].checked = IF withChecked THEN r.checked ELSE @]
    ELSE [st EXCEPT ![r.id] = [present |-> TRUE,
                               checked |-> IF withChecked THEN r.checked ELSE FALSE,
                               position |-> r.position,
                               created_at |-> now]]

\* insert into items (list_id, text, url, created_by, position): the store
\* assigns the id; checked and created_at take their defaults
InsertRow(st, i, p, now) ==
    [st EXCEPT ![i] = [present |-> TRUE, checked |-> FALSE, position |-> p,
                       created_at |-> now]]

RECURSIVE UpsertRows(_, _, _, _)
UpsertRows(st, rows, withChecked, now) ==
    IF rows = << >> THEN st
    ELSE UpsertRows(UpsertRow(st, Head(rows), withChecked, now), Tail(rows),
                    withChecked, now)

(***************************************************************************)
(* Requests in flight.  A request is sent, served by the store (or fails   *)
(* without touching it), and then its awaiting handler resumes.            *)
(***************************************************************************)
Req(kind, origin) ==
    [copy |-> 0, kind |-> kind, origin |-> origin, phase |-> "sent", error |-> FALSE,
     id |-> NoId, flag |-> FALSE, was |-> FALSE, position |-> 0,
     rows |-> << >>, withChecked |-> FALSE, part |-> FALSE,
     id2 |-> NoId, pos2 |-> 0, err1 |-> FALSE, data |-> << >>]

\* the failure handling that ran last, if the last step was one: the handler,
\* the item, and (toggle) the checked flag the handler had captured
Step(op, id) == [op |-> op, id |-> id, was |-> FALSE, ok |-> TRUE]

\* any other step
NoStep == Step("-", NoId)

\* the request as it was sent
AsSent(r) == [r EXCEPT !.copy = 0, !.phase = "sent", !.error = FALSE, !.data = << >>]

\* a request is put in flight; requests that are alike are told apart by copy
Send(S, r) ==
    LET used == {q.copy : q \in {q \in S : AsSent(q) = AsSent(r)}}
        c == CHOOSE c \in 0..Cardinality(S) : c \notin used /\ \A d \in 0..(c - 1) : d \in used
    IN  S \cup {[r EXCEPT !.copy = c]}

\* the requests of R (at most one) are put in flight
SendAll(S, R) == IF R = {} THEN S ELSE Send(S, CHOOSE r \in R : TRUE)

Sent == {r \in net : r.phase = "sent"}
Done == {r \in net : r.phase = "done"}
CanSend == nreq < MaxReq

\* the updates of a reposition: every entity of the partition gets its index
PositionUpdates(s, c) ==
    LET rel == Partition(s, c)
    IN  [k \in 1..Len(rel) |->
           [id |-> rel[k].id, position |-> k - 1, checked |-> rel[k].checked]]

(***************************************************************************)
(* The store's accounts, lists and memberships (src/supabase.sql).         *)
(***************************************************************************)
Accounts == {"u1", "u2", "u3"}
NoAccount == "-"
ListIds == {"L1", "L2"}

\* the e-mail address each account signs up with; "e0" is nobody's
EmailOf == [a \in Accounts |-> CASE a = "u1" -> "e1" [] a = "u2" -> "e2" [] OTHER -> "e3"]
Emails == {"e0", "e1", "e2", "e3"}

\* list_members, as the number of rows per (list_id, user_id)
NoMembers == [l \in ListIds, a \in Accounts |-> 0]

\* exists (select 1 from list_members where list_id = l and user_id = a)
IsMember(mem, l, a) == mem[l, a] > 0

\* the insert without its conflict clause on a table without the primary
\* key: a second grant adds a second row
InsertMemberAgain(mem, l, a) == [mem EXCEPT ![l, a] = @ + 1]

\* insert into list_members (list_id, user_id) values (l, a) on conflict do
\* nothing: the primary key (list_id, user_id) keeps one row per pair
InsertMemberOnConflictDoNothing(mem, l, a) ==
    IF mem[l, a] > 0 THEN mem ELSE [mem EXCEPT ![l, a] = 1]

\* select id from profiles where email = e
ProfilesByEmail(prof, e) == {a \in prof : EmailOf[a] = e}

\* select id into target_user_id from profiles where email = e (null when
\* no row matches; e-mail addresses are unique among accounts)
TargetUserId(prof, e) ==
    IF ProfilesByEmail(prof, e) = {} THEN NoAccount
    ELSE CHOOSE a \in ProfilesByEmail(prof, e) : TRUE

\* the procedure without its test of target_user_id for null
ShareListByEmailUnchecked(mem, prof, uid, target_list_id, target_email) ==
    IF ~IsMember(mem, target_list_id, uid)
    THEN [result |-> "Not authorized", members |-> mem]
    ELSE [result |-> "true", members |-> mem]

\* the procedure with the e-mail lookup ahead of the membership test
ShareListByEmailLookupFirst(mem, prof, uid, target_list_id, target_email) ==
    IF TargetUserId(prof, target_email) = NoAccount
    THEN [result |-> "User not found", members |-> mem]
    ELSE IF ~IsMember(mem, target_list_id, uid)
    THEN [result |-> "Not authorized", members |-> mem]
    ELSE [result |-> "true",
          members |-> InsertMemberOnConflictDoNothing(mem, target_list_id,
                                                       TargetUserId(prof, target_email))]

\* share_list_by_email(target_list_id, target_email) called by uid: the
\* outcome (true, or the exception raised) and the rows of list_members
\* after the call.  An exception rolls the call back.
ShareListByEmail(mem, prof, uid, target_list_id, target_email) ==
    IF ~IsMember(mem, target_list_id, uid)
    THEN [result |-> "Not authorized", members |-> mem]
    ELSE LET target_user_id == TargetUserId(prof, target_email) IN
         IF target_user_id = NoAccount
         THEN [result |-> "User not found", members |-> mem]
         ELSE [result |-> "true",
               members |-> InsertMemberOnConflictDoNothing(mem, target_list_id,
                                                            target_user_id)]

\* the last call: the procedure, its caller and arguments, its outcome, and
\* the rows list_members held before it
Call(fn, uid, l, e, result, before) ==
    [fn |-> fn, caller |-> uid, list |-> l, email |-> e, result |-> result,
     before |-> before]
NoCall == Call("-", NoAccount, "-", "-", "-", NoMembers)

\* a list's own columns and its items, cut down to a name that is the
\* original one or not, and one item that is absent, unchecked or checked
NoRows == [l \in ListIds |-> [renamed |-> FALSE, item |-> "none"]]

\* items.created_by of each list's item: null
NoCreators == [l \in ListIds |-> NoAccount]

\* what a view read: fetchLists of the list collection, fetchList of the
\* detail screen (the lists it got, and whether it called router.replace('/'))
Seen(op, uid, l, ls, redirected) ==
    [op |-> op, by |-> uid, list |-> l, lists |-> ls, redirected |-> redirected]
NoSeen == Seen("-", NoAccount, "-", {}, FALSE)

\* bg_url and custom_icon_url of a list: 0 is null, 1 a file set earlier,
\* n + 1 the public url of the n-th file uploaded since
NoMedia == [bg |-> 0, icon |-> 0]

\* useState toast: null
NoToast == [message |-> "-", type |-> "-"]

\* no count query is under way
NoCounting == [phase |-> "idle", totalCount |-> 0, uncheckedCount |-> 0]

\* the list is not in useState lists yet
NoCounts == [listed |-> FALSE, item_count |-> 0, unchecked_count |-> 0]

\* CACHE_NAME, and the cache name of an earlier version of the worker
CACHE_NAME == "yarishi-cache-v1"
OldCacheName == "yarishi-cache-v0"

\* a response kept in a cache
Entry(cache, url, status, type) ==
    [cache |-> cache, url |-> url, status |-> status, type |-> type]

\* what the fetch listener did with a request
Handled(method, url, answered, source, network) ==
    [method |-> method, url |-> url, answered |-> answered, source |-> source,
     network |-> network]
NoRequest == Handled("-", "-", FALSE, "-", FALSE)

\* a new version of the worker is about to install; the cache of the version
\* before it holds the start page
NewWorker ==
    [state |-> "installing", names |-> {OldCacheName},
     entries |-> {Entry(OldCacheName, "/", 200, "basic")}, last |-> NoRequest]

\* neither mode is on and no text is being edited
NoModes == [isSorting |-> FALSE, isEditingItems |-> FALSE, editingItemId |-> NoId]

\* the view is open: the session was found, the user is set and the view's
\* channel is subscribed
ViewOpen ==
    /\ session = TRUE
    /\ sessionCheck = "settled"
    /\ user = TRUE
    /\ route = "view"
    /\ mounted = TRUE
    /\ effectUser = TRUE
    /\ channels = 1
    /\ list = NoMedia
    /\ media = NoMedia
    /\ uploading = "null"
    /\ toast = NoToast
    /\ nfiles = 0
    /\ counting = NoCounting
    /\ shown = NoCounts
    /\ shareEmail = ""
    /\ sharing = FALSE
    /\ modes = NoModes
    /\ sw = NewWorker

ItemViewIdle ==
    /\ revision = "-"
    /\ store = [i \in RowIds |-> NoRow]
    /\ clock = 0
    /\ items = << >>
    /\ loading = FALSE
    /\ draggedItem = NoItem
    /\ net = {}
    /\ nreq = 0
    /\ others = 0
    /\ notify = FALSE
    /\ last = NoStep
    /\ form = NoForm

\* handle_new_user: a sign-up creates the account's profile
SignUp(a) ==
    /\ a \in Accounts \ profiles
    /\ profiles' = profiles \cup {a}
    /\ rpc' = NoCall
    /\ UNCHANGED <<lists, members, ncalls>>
    /\ seen' = NoSeen
    /\ UNCHANGED <<listRows, itemBy>>
    /\ UNCHANGED <<itemVars, pageVars>>

\* create_list_with_member(list_name, list_icon) called by uid: the list and
\* the creator's membership are inserted in one transaction
CreateListWithMember(uid, l) ==
    /\ ncalls < MaxCalls
    /\ uid \in profiles
    /\ lists[l] = NoAccount
    /\ lists' = [lists EXCEPT ![l] = uid]
    /\ members' = [members EXCEPT ![l, uid] = 1]
    /\ ncalls' = ncalls + 1
    /\ rpc' = Call("create_list_with_member", uid, l, "-", l, members)
    /\ UNCHANGED profiles
    /\ seen' = NoSeen
    /\ UNCHANGED <<listRows, itemBy>>
    /\ UNCHANGED <<itemVars, pageVars>>

\* supabase.rpc('share_list_by_email', ...) by a signed-in account
ShareList(uid, l, e) ==
    /\ ncalls < MaxCalls
    /\ uid \in profiles
    /\ LET out == ShareListByEmail(members, profiles, uid, l, e) IN
         /\ members' = out.members
         /\ rpc' = Call("share_list_by_email", uid, l, e, out.result, members)
    /\ ncalls' = ncalls + 1
    /\ UNCHANGED <<profiles, lists>>
    /\ seen' = NoSeen
    /\ UNCHANGED <<listRows, itemBy>>
    /\ UNCHANGED <<itemVars, pageVars>>

\* policy "List creators can add members": with check (list_id in (select id
\* from lists where created_by = auth.uid()) or user_id = auth.uid()).  The
\* subquery on lists runs under the policy "Users can view their lists".
MayInsertMember(mem, lst, uid, l, a) ==
    \/ (lst[l] = uid /\ IsMember(mem, l, uid))
    \/ a = uid

\* policy "List creators can remove members" (using, same condition), on the
\* rows "Users can view their memberships" lets the caller see
MayDeleteMember(mem, lst, uid, l, a) ==
    /\ a = uid
    /\ \/ (lst[l] = uid /\ IsMember(mem, l, uid))
       \/ a = uid

\* supabase.from('list_members').insert({ list_id: l, user_id: a }) by uid:
\* the row is inserted if the policy admits it, both references exist and
\* the primary key is free
InsertMember(uid, l, a) ==
    /\ ncalls < MaxCalls
    /\ uid \in profiles
    /\ LET ok == /\ MayInsertMember(members, lists, uid, l, a)
                 /\ lists[l] # NoAccount /\ a \in profiles
                 /\ ~IsMember(members, l, a)
       IN  /\ members' = IF ok THEN [members EXCEPT ![l, a] = 1] ELSE members
           /\ rpc' = Call("insert list_members", uid, l, "-",
                          IF ok THEN "inserted" ELSE "error", members)
    /\ ncalls' = ncalls + 1
    /\ UNCHANGED <<profiles, lists>>
    /\ seen' = NoSeen
    /\ UNCHANGED <<listRows, itemBy>>
    /\ UNCHANGED <<itemVars, pageVars>>

\* supabase.from('list_members').delete().eq('list_id', l).eq('user_id', a)
\* by uid: the rows the policies let the caller delete are deleted
DeleteMember(uid, l, a) ==
    /\ ncalls < MaxCalls
    /\ uid \in profiles
    /\ LET ok == IsMember(members, l, a) /\ MayDeleteMember(members, lists, uid, l, a)
       IN  /\ members' = IF ok THEN [members EXCEPT ![l, a] = 0] ELSE members
           /\ rpc' = Call("delete list_members", uid, l, "-",
                          IF ok THEN "deleted" ELSE "0 rows", members)
    /\ ncalls' = ncalls + 1
    /\ UNCHANGED <<profiles, lists>>
    /\ seen' = NoSeen
    /\ UNCHANGED <<listRows, itemBy>>
    /\ UNCHANGED <<itemVars, pageVars>>

\* policy "Users can delete own lists" (using created_by = auth.uid()), on
\* the rows "Users can view their lists" lets the caller see
MayDeleteList(mem, lst, uid, l) == lst[l] = uid /\ IsMember(mem, l, uid)

\* a foreign key on list_members that does not cascade
KeepMembers(mem, gone, accounts) == mem

\* list_members.list_id and list_members.user_id: on delete cascade
CascadeMembers(mem, gone, accounts) ==
    [l \in ListIds, a \in Accounts |-> IF l \in gone \/ a \in accounts THEN 0 ELSE mem[l, a]]

\* items.list_id: on delete cascade (the list's own columns go with its row)
CascadeItems(rows, gone) == [l \in ListIds |-> IF l \in gone THEN NoRows[l] ELSE rows[l]]

\* items.created_by: on delete set null; items.list_id: on delete cascade
SetNullCreators(by, gone, accounts) ==
    [l \in ListIds |-> IF l \in gone \/ by[l] \in accounts THEN NoAccount ELSE by[l]]

\* deleteList(), confirmed: supabase.from('lists').delete().eq('id', l) by
\* uid; the rows that refer to the list go in the same statement
DeleteList(uid, l) ==
    /\ ncalls < MaxCalls
    /\ uid \in profiles
    /\ LET ok == lists[l] # NoAccount /\ MayDeleteList(members, lists, uid, l)
           gone == IF ok THEN {l} ELSE {}
       IN  /\ lists' = [k \in ListIds |-> IF k \in gone THEN NoAccount ELSE lists[k]]
           /\ members' = CascadeMembers(members, gone, {})
           /\ listRows' = CascadeItems(listRows, gone)
           /\ itemBy' = SetNullCreators(itemBy, gone, {})
           /\ rpc' = Call("delete lists", uid, l, "-", IF ok THEN "1 row" ELSE "0 rows", members)
    /\ ncalls' = ncalls + 1
    /\ seen' = NoSeen
    /\ UNCHANGED profiles
    /\ UNCHANGED <<itemVars, pageVars>>

\* an account is deleted from auth.users: its profile goes (profiles.id on
\* delete cascade), with it the lists it created (lists.created_by on delete
\* cascade) and what refers to them, and its memberships; items it created
\* in other lists keep their row with created_by null
DeleteAccount(a) ==
    /\ ncalls < MaxCalls
    /\ a \in profiles
    /\ LET gone == {l \in ListIds : lists[l] = a} IN
         /\ profiles' = profiles \ {a}
         /\ lists' = [k \in ListIds |-> IF k \in gone THEN NoAccount ELSE lists[k]]
         /\ members' = CascadeMembers(members, gone, {a})
         /\ listRows' = CascadeItems(listRows, gone)
         /\ itemBy' = SetNullCreators(itemBy, gone, {a})
    /\ rpc' = Call("delete account", a, "-", "-", "deleted", members)
    /\ ncalls' = ncalls + 1
    /\ seen' = NoSeen
    /\ UNCHANGED <<itemVars, pageVars>>

\* a select policy on lists that lets every account through
AnyoneMaySelect(mem, uid, l) == TRUE

\* (select list_id from public.list_members where user_id = auth.uid())
ListsOfCaller(mem, uid) == {l \in ListIds : mem[l, uid] > 0}

\* policies "Users can view their lists" and "Users can update their lists"
MaySelectList(mem, uid, l) == l \in ListsOfCaller(mem, uid)
MayUpdateList(mem, uid, l) == l \in ListsOfCaller(mem, uid)

\* the four policies on items
MaySelectItems(mem, uid, l) == l \in ListsOfCaller(mem, uid)
MayInsertItem(mem, uid, l) == l \in ListsOfCaller(mem, uid)
MayUpdateItem(mem, uid, l) == l \in ListsOfCaller(mem, uid)
MayDeleteItem(mem, uid, l) == l \in ListsOfCaller(mem, uid)

TableOps ==
    {"select lists", "update lists", "select items", "insert items",
     "update items", "delete items"}

\* the policy that governs op on list l, or on the items of l
Policy(op, mem, uid, l) ==
    CASE op = "select lists" -> MaySelectList(mem, uid, l)
      [] op = "update lists" -> MayUpdateList(mem, uid, l)
      [] op = "select items" -> MaySelectItems(mem, uid, l)
      [] op = "insert items" -> MayInsertItem(mem, uid, l)
      [] op = "update items" -> MayUpdateItem(mem, uid, l)
      [] OTHER -> MayDeleteItem(mem, uid, l)

\* the stored row of list l after op, when the policy lets op through
Written(row, op) ==
    CASE op = "update lists" -> [row EXCEPT !.renamed = ~@]
      [] op = "insert items" -> [row EXCEPT !.item = IF @ = "none" THEN "unchecked" ELSE @]
      [] op = "update items" ->
           [row EXCEPT !.item = CASE @ = "unchecked" -> "checked"
                                  [] @ = "checked" -> "unchecked"
                                  [] OTHER -> @]
      [] op = "delete items" -> [row EXCEPT !.item = "none"]
      [] OTHER -> row

\* created_by of the list's item after op: addItem sends created_by: user.id
\* with the insert; a deleted item has none
CreatedBy(by, row, op, uid) ==
    CASE op = "insert items" /\ row.item = "none" -> uid
      [] op = "delete items" -> NoAccount
      [] OTHER -> by

\* what the caller gets back
Answer(row, op, allowed) ==
    CASE op = "insert items" -> IF allowed THEN "inserted" ELSE "error"
      [] op \in {"select lists", "update lists"} -> IF allowed THEN "1 row" ELSE "0 rows"
      [] OTHER -> IF allowed /\ row.item # "none" THEN "1 row" ELSE "0 rows"

\* supabase.from('lists' | 'items')... by a signed-in account on list l or
\* on the items of l, under row level security
TableAccess(uid, l, op) ==
    /\ ncalls < MaxCalls
    /\ uid \in profiles
    /\ op \in TableOps
    /\ LET allowed == lists[l] # NoAccount /\ Policy(op, members, uid, l) IN
         /\ listRows' = IF allowed THEN [listRows EXCEPT ![l] = Written(@, op)] ELSE listRows
         /\ itemBy' = IF allowed THEN [itemBy EXCEPT ![l] = CreatedBy(@, listRows[l], op, uid)]
                       ELSE itemBy
         /\ rpc' = Call(op, uid, l, "-", Answer(listRows[l], op, allowed), members)
    /\ ncalls' = ncalls + 1
    /\ seen' = NoSeen
    /\ UNCHANGED <<profiles, lists, members>>
    /\ UNCHANGED <<itemVars, pageVars>>

\* fetchLists() of the list collection view of uid, with both selects
\* answered: the caller's list_members rows, then the lists with those ids
FetchLists(uid) ==
    /\ uid \in profiles
    /\ LET memberData == {l \in ListIds : IsMember(members, l, uid)}
           listsData == {l \in memberData :
                           lists[l] # NoAccount /\ MaySelectList(members, uid, l)}
       IN  seen' = Seen("fetchLists", uid, "-",
                        IF memberData = {} THEN {} ELSE listsData, FALSE)
    /\ rpc' = NoCall
    /\ UNCHANGED <<profiles, lists, members, ncalls, listRows, itemBy>>
    /\ UNCHANGED <<itemVars, pageVars>>

\* fetchList() of the detail screen of list l opened by uid, answered:
\* setList(data), or router.replace('/') when .single() gave no row
FetchList(uid, l) ==
    /\ uid \in profiles
    /\ LET data == lists[l] # NoAccount /\ MaySelectList(members, uid, l)
       IN  seen' = Seen("fetchList", uid, l, IF data THEN {l} ELSE {}, ~data)
    /\ rpc' = NoCall
    /\ UNCHANGED <<profiles, lists, members, ncalls, listRows, itemBy>>
    /\ UNCHANGED <<itemVars, pageVars>>

InitShare ==
    /\ profiles = {}
    /\ lists = [l \in ListIds |-> NoAccount]
    /\ members = NoMembers
    /\ ncalls = 0
    /\ rpc = NoCall
    /\ listRows = NoRows
    /\ itemBy = NoCreators
    /\ seen = NoSeen
    /\ ItemViewIdle
    /\ ViewOpen

\* created_by of the lists after an upsert of updates naming the lists in
\* held, each with created_by: user.id
UpsertCreatedBy(lst, held, uid) == [l \in ListIds |-> IF l \in held THEN uid ELSE lst[l]]

\* saveNewPositions of the list collection, run by account uid on the lists
\* its view holds: one upsert on conflict id; each row that exists passes the
\* update policy (and the insert check, created_by being the caller)
SaveListOrder(uid) ==
    /\ ncalls < MaxCalls
    /\ uid \in profiles
    /\ LET held == {l \in ListsOfCaller(members, uid) :
                       lists[l] # NoAccount /\ MayUpdateList(members, uid, l)}
       IN  /\ held # {}
           /\ lists' = UpsertCreatedBy(lists, held, uid)
           /\ rpc' = Call("upsert lists", uid, "-", "-", "upserted", members)
    /\ ncalls' = ncalls + 1
    /\ seen' = NoSeen
    /\ UNCHANGED <<profiles, members, listRows, itemBy>>
    /\ UNCHANGED <<itemVars, pageVars>>

NextShare ==
    \/ \E a \in Accounts : SignUp(a)
    \/ \E a \in Accounts, l \in ListIds : CreateListWithMember(a, l)
    \/ \E a \in Accounts, l \in ListIds, e \in Emails : ShareList(a, l, e)
    \/ \E uid \in Accounts, l \in ListIds, a \in Accounts : InsertMember(uid, l, a)
    \/ \E uid \in Accounts, l \in ListIds, a \in Accounts : DeleteMember(uid, l, a)
    \/ \E uid \in Accounts, l \in ListIds, op \in TableOps : TableAccess(uid, l, op)
    \/ \E uid \in Accounts : FetchLists(uid)
    \/ \E uid \in Accounts, l \in ListIds : FetchList(uid, l)
    \/ \E uid \in Accounts, l \in ListIds : DeleteList(uid, l)
    \/ \E a \in Accounts : DeleteAccount(a)
    \/ \E uid \in Accounts : SaveListOrder(uid)

SpecShare == InitShare /\ [][NextShare]_vars

(***************************************************************************)
(* The item view: optimistic mutations (both revisions).                   *)
(***************************************************************************)
\* the user can act on the rendered list: loaded, and no drag in progress
\* (the browser delivers no click while a drag and drop is under way)
Idle == ~loading /\ draggedItem = NoItem

\* fetchItems(): the query is issued; the response is applied in FetchDone
FetchRequest(origin) == Req("fetch", origin)

\* prev.map(i => i.id === id ? { ...i, checked: c } : i)
SetChecked(s, id, c) ==
    [k \in 1..Len(s) |-> IF s[k].id = id THEN [s[k] EXCEPT !.checked = c] ELSE s[k]]

\* prev.map(i => i.id === item.id ? { ...i, checked: !i.checked } : i)
FlipChecked(s, id) ==
    [k \in 1..Len(s) |-> IF s[k].id = id THEN [s[k] EXCEPT !.checked = ~@] ELSE s[k]]

\* toggleItem(item), up to its await: the optimistic flip and the update sent
ToggleItem(k) ==
    /\ Idle /\ CanSend
    /\ k \in 1..Len(items)
    /\ LET item == items[k] IN
        /\ items' = FlipChecked(items, item.id)
        /\ net' = Send(net, [Req("toggle", "toggleItem") EXCEPT
                               !.id = item.id, !.flag = ~item.checked,
                               !.was = item.checked])
        /\ last' = NoStep
    /\ nreq' = nreq + 1
    /\ UNCHANGED <<revision, form, store, clock, loading, draggedItem, others, notify>>
    /\ UNCHANGED <<shareVars, pageVars>>

\* a revert that flips the current flag instead of restoring the captured one
RevertByFlip(s, r) == FlipChecked(s, r.id)

\* the revert of toggleItem: checked: item.checked, the value captured
RevertToggle(s, r) == SetChecked(s, r.id, r.was)

\* toggleItem after its await: on error the flag is set back
ToggleDone(r) ==
    /\ r \in Done /\ r.kind = "toggle"
    /\ items' = IF r.error THEN RevertToggle(items, r) ELSE items
    /\ net' = net \ {r}
    /\ last' = IF r.error THEN [Step("toggleFailed", r.id) EXCEPT !.was = r.was]
                ELSE NoStep
    /\ UNCHANGED <<revision, form, store, clock, loading, draggedItem, nreq, others, notify>>
    /\ UNCHANGED <<shareVars, pageVars>>

\* deleteItem(itemId), up to its await: the optimistic removal and the delete sent
DeleteItem(k) ==
    /\ Idle /\ CanSend
    /\ k \in 1..Len(items)
    /\ LET itemId == items[k].id IN
        /\ items' = WithoutId(items, itemId)
        /\ net' = Send(net, [Req("delete", "deleteItem") EXCEPT !.id = itemId])
        /\ last' = NoStep
    /\ nreq' = nreq + 1
    /\ UNCHANGED <<revision, form, store, clock, loading, draggedItem, others, notify>>
    /\ UNCHANGED <<shareVars, pageVars>>

\* a failure handler that sends nothing
NoRequests(r) == {}

\* what deleteItem sends when the delete has failed: fetchItems()
DeleteFailedRequests(r) == {[FetchRequest("deleteItem") EXCEPT !.id = r.id]}

\* deleteItem after its await: on error, fetchItems()
DeleteDone(r) ==
    /\ r \in Done /\ r.kind = "delete"
    /\ r.error => CanSend
    /\ net' = SendAll(net \ {r}, IF r.error THEN DeleteFailedRequests(r) ELSE {})
    /\ nreq' = IF r.error THEN nreq + 1 ELSE nreq
    /\ last' = IF r.error THEN Step("deleteFailed", r.id) ELSE NoStep
    /\ UNCHANGED <<revision, form, store, clock, items, loading, draggedItem, others, notify>>
    /\ UNCHANGED <<shareVars, pageVars>>

\* the position a list gets from create_list_with_member, which names no
\* position: the column default of lists.position
NewListPosition == 0

\* the user types into the add form's input
TypeText ==
    /\ revision = "stepwise" /\ ~loading
    /\ form.text = ""
    /\ form' = [form EXCEPT !.text = "x"]
    /\ last' = NoStep
    /\ UNCHANGED <<revision, store, clock, items, loading, draggedItem, net, nreq,
                   others, notify>>
    /\ UNCHANGED <<shareVars, pageVars>>

\* Math.max(...items.map(i => i.position || 0)), or 0 for no items
MaxPos(s) ==
    IF s = << >> THEN 0
    ELSE CHOOSE m \in {s[k].position : k \in 1..Len(s)} :
            \A k \in 1..Len(s) : s[k].position <= m

\* addItem(), up to its await: setAdding(true) and the insert sent
AddItem ==
    /\ revision = "stepwise" /\ Idle /\ CanSend
    /\ form.text # "" /\ ~form.made
    /\ form' = [form EXCEPT !.adding = TRUE, !.made = TRUE]
    /\ net' = Send(net, [Req("insert", "addItem") EXCEPT
                           !.id = NewId, !.position = MaxPos(items) + 1])
    /\ nreq' = nreq + 1
    /\ last' = NoStep
    /\ UNCHANGED <<revision, store, clock, items, loading, draggedItem, others, notify>>
    /\ UNCHANGED <<shareVars, pageVars>>

\* a success path that sends nothing
NothingSent == {}

\* what addItem sends when the insert has succeeded: fetchItems()
AddedRequests == {FetchRequest("addItem")}

\* addItem after its await: on success the input is cleared and the items
\* are fetched; setAdding(false) either way
AddDone(r) ==
    /\ r \in Done /\ r.kind = "insert" /\ r.origin = "addItem"
    /\ ~r.error => CanSend
    /\ form' = [form EXCEPT !.adding = FALSE,
                            !.text = IF r.error THEN @ ELSE ""]
    /\ net' = SendAll(net \ {r}, IF r.error THEN {} ELSE AddedRequests)
    /\ nreq' = IF r.error THEN nreq ELSE nreq + 1
    /\ last' = NoStep
    /\ UNCHANGED <<revision, store, clock, items, loading, draggedItem, others, notify>>
    /\ UNCHANGED <<shareVars, pageVars>>

(***************************************************************************)
(* The item view: repositioning.                                           *)
(***************************************************************************)
\* the items a handler may be called with: a rendered item, or one that the
\* local collection does not hold (the handlers test for it)
AbsentItems ==
    {[id |-> i, checked |-> c, position |-> 0] :
        i \in ItemIds \ IdSet(items), c \in BOOLEAN}
MoveInputs == {items[k] : k \in 1..Len(items)} \cup AbsentItems

\* saveNewPositions(isChecked) of the stepwise revision, called with the
\* items its closure holds: one upsert of the partition's indices, checked
\* flag included.  The result of the await is not looked at.
SaveNewPositions(closureItems, isChecked) ==
    [Req("upsert", "saveNewPositions") EXCEPT
        !.rows = PositionUpdates(closureItems, isChecked),
        !.withChecked = TRUE, !.part = isChecked]

\* moveItem of the stepwise revision: the local order after the move
\* a move that carries the item to the edge of its partition
MoveItemOrderToEdge(s, itemToMove, direction) ==
    LET relevantItems == Partition(s, itemToMove.checked)
        currentIndex == FindIndexById(relevantItems, itemToMove.id)
        newIndex == IF direction = "up" THEN 0 ELSE Len(relevantItems) - 1
        removed == relevantItems[currentIndex + 1]
        newRelevantItems == SpliceIn(SpliceOut(relevantItems, currentIndex), newIndex, removed)
        otherItems == Partition(s, ~itemToMove.checked)
    IN  IF itemToMove.checked THEN otherItems \o newRelevantItems
        ELSE newRelevantItems \o otherItems

MoveItemOrder(s, itemToMove, direction) ==
    LET relevantItems == Partition(s, itemToMove.checked)
        currentIndex == FindIndexById(relevantItems, itemToMove.id)
        newIndex == IF direction = "up" THEN currentIndex - 1 ELSE currentIndex + 1
        removed == relevantItems[currentIndex + 1]
        newRelevantItems == SpliceIn(SpliceOut(relevantItems, currentIndex), newIndex, removed)
        otherItems == Partition(s, ~itemToMove.checked)
    IN  IF itemToMove.checked THEN otherItems \o newRelevantItems
        ELSE newRelevantItems \o otherItems

\* moveItem of the stepwise revision returns early: absent, or at a boundary
MoveItemReturns(s, itemToMove, direction) ==
    LET relevantItems == Partition(s, itemToMove.checked)
        currentIndex == FindIndexById(relevantItems, itemToMove.id)
        newIndex == IF direction = "up" THEN currentIndex - 1 ELSE currentIndex + 1
    IN  \/ currentIndex = -1
        \/ newIndex < 0
        \/ newIndex >= Len(relevantItems)

\* moveItem(itemToMove, direction), stepwise revision.  setItems(combined)
\* schedules the new state; saveNewPositions runs in the same closure, whose
\* items is the array of the render the click came from.
MoveItem(itemToMove, direction) ==
    /\ revision = "stepwise" /\ Idle
    /\ itemToMove \in MoveInputs
    /\ IF MoveItemReturns(items, itemToMove, direction)
       THEN /\ UNCHANGED <<items, net, nreq>>
            /\ last' = NoStep
       ELSE /\ CanSend
            /\ items' = MoveItemOrder(items, itemToMove, direction)
            /\ net' = Send(net, SaveNewPositions(items, itemToMove.checked))
            /\ nreq' = nreq + 1
            /\ last' = NoStep
    /\ UNCHANGED <<revision, form, store, clock, loading, draggedItem, others, notify>>
    /\ UNCHANGED <<shareVars, pageVars>>

\* saveNewPositions after its await (stepwise revision): nothing is done
SaveDone(r) ==
    /\ r \in Done /\ r.kind = "upsert" /\ r.origin = "saveNewPositions"
    /\ net' = net \ {r}
    /\ last' = IF r.error THEN Step("saveFailed", NoId) ELSE NoStep
    /\ UNCHANGED <<revision, form, store, clock, items, loading, draggedItem, nreq,
                   others, notify>>
    /\ UNCHANGED <<shareVars, pageVars>>

\* moveItem of the drag revision returns early, or throws on targetItem.position
\* (relevantItems[targetIndex] is undefined), before anything is sent
SwapReturns(s, item, direction) ==
    LET relevantItems == Partition(s, item.checked)
        index == IndexOf(relevantItems, item)
        targetIndex == IF direction = "up" THEN index - 1 ELSE index + 1
    IN  \/ direction = "up" /\ index = 0
        \/ direction = "down" /\ index = Len(relevantItems) - 1
        \/ targetIndex < 0
        \/ targetIndex >= Len(relevantItems)

\* moveItem(item, direction), drag revision, up to its first await: the
\* item's position is set to the neighbour's
MoveItemSwap(item, direction) ==
    /\ revision = "drag" /\ Idle
    /\ item \in MoveInputs
    /\ IF SwapReturns(items, item, direction)
       THEN /\ UNCHANGED <<net, nreq>>
            /\ last' = NoStep
       ELSE /\ CanSend
            /\ LET relevantItems == Partition(items, item.checked)
                   index == IndexOf(relevantItems, item)
                   targetIndex == IF direction = "up" THEN index - 1 ELSE index + 1
                   targetItem == relevantItems[targetIndex + 1]
               IN  net' = Send(net, [Req("setpos", "moveItem1") EXCEPT
                                       !.id = item.id, !.position = targetItem.position,
                                       !.id2 = targetItem.id, !.pos2 = item.position])
            /\ nreq' = nreq + 1
            /\ last' = NoStep
    /\ UNCHANGED <<revision, form, store, clock, items, loading, draggedItem, others, notify>>
    /\ UNCHANGED <<shareVars, pageVars>>

\* moveItem after its first await: the neighbour's position is set to tempPos
SwapFirstDone(r) ==
    /\ r \in Done /\ r.kind = "setpos" /\ r.origin = "moveItem1"
    /\ CanSend
    /\ net' = Send(net \ {r}, [Req("setpos", "moveItem2") EXCEPT
                                   !.id = r.id2, !.position = r.pos2,
                                   !.err1 = r.error])
    /\ nreq' = nreq + 1
    /\ last' = NoStep
    /\ UNCHANGED <<revision, form, store, clock, items, loading, draggedItem, others, notify>>
    /\ UNCHANGED <<shareVars, pageVars>>

\* moveItem after its second await: fetchItems() when neither update failed
SwapSecondDone(r) ==
    /\ r \in Done /\ r.kind = "setpos" /\ r.origin = "moveItem2"
    /\ LET ok == ~r.err1 /\ ~r.error IN
        /\ ok => CanSend
        /\ net' = SendAll(net \ {r}, IF ok THEN {FetchRequest("moveItem")} ELSE {})
        /\ nreq' = IF ok THEN nreq + 1 ELSE nreq
        /\ last' = NoStep
    /\ UNCHANGED <<revision, form, store, clock, items, loading, draggedItem, others, notify>>
    /\ UNCHANGED <<shareVars, pageVars>>

\* onDragStart(item)
DragStart(k) ==
    /\ revision = "drag" /\ Idle
    /\ k \in 1..Len(items)
    /\ draggedItem' = items[k]
    /\ last' = NoStep
    /\ UNCHANGED <<revision, form, store, clock, items, loading, net, nreq, others, notify>>
    /\ UNCHANGED <<shareVars, pageVars>>

\* onDragOver returns early: no drag, the dragged item itself, or the other partition
DragOverReturns(dragged, targetItem) ==
    \/ dragged = NoItem
    \/ dragged.id = targetItem.id
    \/ dragged.checked # targetItem.checked

\* onDragOver's newItems: the dragged item spliced out and in at the target's index
DragOverOrder(s, dragged, targetItem) ==
    LET draggedIdx == FindIndexById(s, dragged.id)
        targetIdx == FindIndexById(s, targetItem.id)
    IN  SpliceIn(SpliceOut(s, draggedIdx), targetIdx, dragged)

\* onDragOver(e, targetItem)
DragOver(k) ==
    /\ revision = "drag" /\ ~loading
    /\ k \in 1..Len(items)
    /\ items' = IF DragOverReturns(draggedItem, items[k]) THEN items
                ELSE DragOverOrder(items, draggedItem, items[k])
    /\ last' = NoStep
    /\ UNCHANGED <<revision, form, store, clock, loading, draggedItem, net, nreq, others, notify>>
    /\ UNCHANGED <<shareVars, pageVars>>

\* onDragEnd(), up to its await: the partition of the dragged item is upserted
\* by index, without the checked flag
DragEnd ==
    /\ revision = "drag" /\ ~loading
    /\ IF draggedItem = NoItem
       THEN /\ UNCHANGED <<draggedItem, net, nreq>>
            /\ last' = NoStep
       ELSE /\ CanSend
            /\ draggedItem' = NoItem
            /\ net' = Send(net, [Req("upsert", "onDragEnd") EXCEPT
                                   !.rows = PositionUpdates(items, draggedItem.checked),
                                   !.part = draggedItem.checked])
            /\ nreq' = nreq + 1
            /\ last' = NoStep
    /\ UNCHANGED <<revision, form, store, clock, items, loading, others, notify>>
    /\ UNCHANGED <<shareVars, pageVars>>

\* what onDragEnd sends when the upsert has failed: fetchItems()
DragFailedRequests == {FetchRequest("onDragEnd")}

\* onDragEnd after its await: if (error) fetchItems()
DragSaveDone(r) ==
    /\ r \in Done /\ r.kind = "upsert" /\ r.origin = "onDragEnd"
    /\ r.error => CanSend
    /\ net' = SendAll(net \ {r}, IF r.error THEN DragFailedRequests ELSE {})
    /\ nreq' = IF r.error THEN nreq + 1 ELSE nreq
    /\ last' = NoStep
    /\ UNCHANGED <<revision, form, store, clock, items, loading, draggedItem, others, notify>>
    /\ UNCHANGED <<shareVars, pageVars>>

(***************************************************************************)
(* Fetching and change notifications.                                      *)
(***************************************************************************)
\* fetchItems after its await: if (data) setItems(data); the load's
\* Promise.all(...).then(() => setLoading(false))
FetchDone(r) ==
    /\ r \in Done /\ r.kind = "fetch"
    /\ items' = IF r.error THEN items ELSE r.data
    /\ loading' = IF r.origin = "load" THEN FALSE ELSE loading
    /\ net' = net \ {r}
    /\ last' = IF r.origin \in {"deleteItem", "onDragEnd"}
                THEN [Step("refetched", r.id) EXCEPT !.ok = ~r.error]
                ELSE NoStep
    /\ UNCHANGED <<revision, form, store, clock, draggedItem, nreq, others, notify>>
    /\ UNCHANGED <<shareVars, pageVars>>

\* the channel's postgres_changes callback on table items: () => fetchItems().
\* Events that are pending together are delivered as one.
RealtimeEvent ==
    /\ notify /\ CanSend
    /\ notify' = FALSE
    /\ net' = Send(net, FetchRequest("realtime"))
    /\ nreq' = nreq + 1
    /\ last' = NoStep
    /\ UNCHANGED <<revision, form, store, clock, items, loading, draggedItem, others>>
    /\ UNCHANGED <<shareVars, pageVars>>

(***************************************************************************)
(* The list collection view (HomePage).  Its entities are the lists the    *)
(* account is a member of: store holds their rows of table lists, items    *)
(* holds useState lists, form holds creating and newListName.              *)
(*   "lists"     src/app/page.tsx lines 1-345  (up/down buttons, moveList)  *)
(*   "listsDrag" src/app/layout.tsx lines 40-366 (long press and drag)      *)
(***************************************************************************)
ListRevisions == {"lists", "listsDrag"}

\* .order('position', asc).order('created_at', desc)
BeforeList(st, i, j) ==
    \/ st[i].position < st[j].position
    \/ st[i].position = st[j].position /\ st[i].created_at > st[j].created_at

\* fetchLists' second query: the lists of the account's memberships in that
\* order; rows tied on both keys come in whatever order the store picks
FetchListRows(st) ==
    LET P == {i \in RowIds : st[i].present}
        n == Cardinality(P)
        orders == {f \in [1..n -> P] :
                     /\ \A k, l \in 1..n : k # l => f[k] # f[l]
                     /\ \A k, l \in 1..n : k < l => ~BeforeList(st, f[l], f[k])}
    IN  {[k \in 1..n |-> LocalItem(st, f[k])] : f \in orders}

\* what a select of the view's collection may return
Selected(st) == IF revision \in ListRevisions THEN FetchListRows(st) ELSE FetchItems(st)

\* fetchLists after its awaits.  When the select on list_members has failed
\* (memberData is null) the local lists are emptied; when the select on
\* lists has failed they are left; setLoading(false) in every case.
FetchListsDone(r) ==
    /\ revision \in ListRevisions
    /\ r \in Done /\ r.kind = "fetch"
    /\ \/ ~r.error /\ items' = r.data
       \/ r.error /\ items' = << >>
       \/ r.error /\ items' = items
    /\ loading' = FALSE
    /\ net' = net \ {r}
    /\ last' = IF r.origin = "saveNewPositions"
                THEN [Step("refetched", r.id) EXCEPT !.ok = ~r.error]
                ELSE NoStep
    /\ UNCHANGED <<revision, form, store, clock, draggedItem, nreq, others, notify>>
    /\ UNCHANGED <<shareVars, pageVars>>

\* saveNewPositions(updatedLists): one upsert of every list's index
SaveListPositions(updatedLists) ==
    [Req("upsert", "saveNewPositions") EXCEPT
        !.rows = PositionUpdates(updatedLists, FALSE)]

\* moveList: newLists after the splice
MoveListOrder(s, listToMove, direction) ==
    LET currentIndex == FindIndexById(s, listToMove.id)
        newIndex == IF direction = "up" THEN currentIndex - 1 ELSE currentIndex + 1
        removed == s[currentIndex + 1]
    IN  SpliceIn(SpliceOut(s, currentIndex), newIndex, removed)

\* moveList does nothing: the list is absent, or newIndex is out of range
MoveListReturns(s, listToMove, direction) ==
    LET currentIndex == FindIndexById(s, listToMove.id)
        newIndex == IF direction = "up" THEN currentIndex - 1 ELSE currentIndex + 1
    IN  \/ currentIndex = -1
        \/ ~(newIndex >= 0 /\ newIndex < Len(s))

\* moveList(listToMove, direction): setLists(newLists); saveNewPositions(newLists)
MoveList(listToMove, direction) ==
    /\ revision = "lists" /\ Idle
    /\ listToMove \in MoveInputs
    /\ IF MoveListReturns(items, listToMove, direction)
       THEN /\ UNCHANGED <<items, net, nreq>>
            /\ last' = NoStep
       ELSE /\ CanSend
            /\ items' = MoveListOrder(items, listToMove, direction)
            /\ net' = Send(net, SaveListPositions(MoveListOrder(items, listToMove, direction)))
            /\ nreq' = nreq + 1
            /\ last' = NoStep
    /\ UNCHANGED <<revision, form, store, clock, loading, draggedItem, others, notify>>
    /\ UNCHANGED <<shareVars, pageVars>>

\* what saveNewPositions sends when the upsert has failed: fetchLists()
SaveListsFailedRequests == {FetchRequest("saveNewPositions")}

\* saveNewPositions after its await: if (error) fetchLists()
SaveListsDone(r) ==
    /\ revision \in ListRevisions
    /\ r \in Done /\ r.kind = "upsert"
    /\ r.error => CanSend
    /\ net' = SendAll(net \ {r}, IF r.error THEN SaveListsFailedRequests ELSE {})
    /\ nreq' = IF r.error THEN nreq + 1 ELSE nreq
    /\ last' = NoStep
    /\ UNCHANGED <<revision, form, store, clock, items, loading, draggedItem, others, notify>>
    /\ UNCHANGED <<shareVars, pageVars>>

\* the user types a name into the new list dialog
TypeListName ==
    /\ revision = "lists" /\ ~loading
    /\ form.text = ""
    /\ form' = [form EXCEPT !.text = "x"]
    /\ last' = NoStep
    /\ UNCHANGED <<revision, store, clock, items, loading, draggedItem, net, nreq,
                   others, notify>>
    /\ UNCHANGED <<shareVars, pageVars>>

\* createList(), up to its await: setCreating(true) and the call of
\* create_list_with_member sent
CreateList ==
    /\ revision = "lists" /\ Idle /\ CanSend
    /\ form.text # "" /\ ~form.made
    /\ form' = [form EXCEPT !.adding = TRUE, !.made = TRUE]
    /\ net' = Send(net, [Req("insert", "createList") EXCEPT
                           !.id = NewId, !.position = NewListPosition])
    /\ nreq' = nreq + 1
    /\ last' = NoStep
    /\ UNCHANGED <<revision, store, clock, items, loading, draggedItem, others, notify>>
    /\ UNCHANGED <<shareVars, pageVars>>

\* what createList sends when the call has succeeded: fetchLists()
CreatedRequests == {FetchRequest("createList")}

\* createList after its await: on success the dialog is closed, the name
\* cleared and the lists fetched; setCreating(false) either way
CreateDone(r) ==
    /\ r \in Done /\ r.kind = "insert" /\ r.origin = "createList"
    /\ ~r.error => CanSend
    /\ form' = [form EXCEPT !.adding = FALSE,
                            !.text = IF r.error THEN @ ELSE ""]
    /\ net' = SendAll(net \ {r}, IF r.error THEN {} ELSE CreatedRequests)
    /\ nreq' = IF r.error THEN nreq ELSE nreq + 1
    /\ last' = NoStep
    /\ UNCHANGED <<revision, store, clock, items, loading, draggedItem, others, notify>>
    /\ UNCHANGED <<shareVars, pageVars>>

(***************************************************************************)
(* The store serving the client's requests, and the other collaborators.   *)
(***************************************************************************)
Served(r, err, data) == [r EXCEPT !.phase = "done", !.error = err, !.data = data]

\* the updates of an upsert on lists that reach a row the account sees: an
\* update naming a list that is gone inserts a list without a membership,
\* which no fetch of the account returns
VisibleUpdates(st, rows) == SelectSeq(rows, LAMBDA u : st[u.id].present)

\* delete().in('id', ids): the rows named are deleted, whatever they hold
DeleteRowsIn(st, ids) ==
    [i \in RowIds |-> IF \E k \in 1..Len(ids) : ids[k] = i THEN NoRow ELSE st[i]]

\* the store's rows after write request r is applied
Apply(st, r, now) ==
    CASE r.kind = "toggle" -> UpdateChecked(st, r.id, r.flag)
      [] r.kind = "delete" -> DeleteRow(st, r.id)
      [] r.kind = "setpos" -> UpdatePosition(st, r.id, r.position)
      [] r.kind = "upsert" /\ revision \in ListRevisions ->
           UpsertRows(st, VisibleUpdates(st, r.rows), r.withChecked, now)
      [] r.kind = "upsert" -> UpsertRows(st, r.rows, r.withChecked, now)
      [] r.kind = "insert" -> InsertRow(st, r.id, r.position, now)
      [] r.kind = "clear" -> DeleteRowsIn(st, r.rows)
      [] OTHER -> st

\* request r touches a row: an insert, update or delete event is published
Touches(st, r) ==
    CASE r.kind = "upsert" -> r.rows # << >>
      [] r.kind = "insert" -> TRUE
      [] r.kind = "fetch" -> FALSE
      [] r.kind = "clear" -> \E k \in 1..Len(r.rows) : st[r.rows[k]].present
      [] OTHER -> st[r.id].present

\* a select is answered
ServeFetch(r) ==
    /\ r \in Sent /\ r.kind = "fetch"
    /\ \E d \in Selected(store) :
         net' = (net \ {r}) \cup {Served(r, FALSE, d)}
    /\ last' = NoStep
    /\ UNCHANGED <<revision, form, store, clock, items, loading, draggedItem, nreq,
                   others, notify>>
    /\ UNCHANGED <<shareVars, pageVars>>

\* a write is applied in one statement
ServeWrite(r) ==
    /\ r \in Sent /\ r.kind # "fetch"
    /\ store' = Apply(store, r, clock + 1)
    /\ clock' = IF \/ r.kind = "insert"
                   \/ r.kind = "upsert" /\ \E k \in 1..Len(r.rows) : ~store[r.rows[k].id].present
                THEN clock + 1 ELSE clock
    /\ notify' = (notify \/ Touches(store, r))
    /\ net' = (net \ {r}) \cup {Served(r, FALSE, << >>)}
    /\ last' = NoStep
    /\ UNCHANGED <<revision, form, items, loading, draggedItem, nreq, others>>
    /\ UNCHANGED <<shareVars, pageVars>>

\* a request fails (network, or the store rejects it): nothing is applied and
\* the client gets { data: null, error }
ServeError(r) ==
    /\ r \in Sent
    /\ net' = (net \ {r}) \cup {Served(r, TRUE, << >>)}
    /\ last' = NoStep
    /\ UNCHANGED <<revision, form, store, clock, items, loading, draggedItem, nreq,
                   others, notify>>
    /\ UNCHANGED <<shareVars, pageVars>>

\* another member toggles an item of the list
OtherToggle(i) ==
    /\ others < MaxOther
    /\ store[i].present
    /\ store' = UpdateChecked(store, i, ~store[i].checked)
    /\ others' = others + 1
    /\ notify' = TRUE
    /\ last' = NoStep
    /\ UNCHANGED <<revision, form, clock, items, loading, draggedItem, net, nreq>>
    /\ UNCHANGED <<shareVars, pageVars>>

\* another member deletes an item of the list
OtherDelete(i) ==
    /\ others < MaxOther
    /\ store[i].present
    /\ store' = DeleteRow(store, i)
    /\ others' = others + 1
    /\ notify' = TRUE
    /\ last' = NoStep
    /\ UNCHANGED <<revision, form, clock, items, loading, draggedItem, net, nreq>>
    /\ UNCHANGED <<shareVars, pageVars>>

\* the orders another member's view can hold of the entities of a partition
Orders(st, c) ==
    LET P == {i \in RowIds : st[i].present /\ st[i].checked = c}
    IN  {f \in [1..Cardinality(P) -> P] :
            \A k, l \in 1..Cardinality(P) : k # l => f[k] # f[l]}

\* the updates another member's client sends for the order its view holds
OtherUpdates(order, c) ==
    [k \in 1..Len(order) |-> [id |-> order[k], position |-> k - 1, checked |-> c]]

\* another member repositions an entity of the partition; its client's
\* batched upsert is applied
OtherReposition(c, order) ==
    /\ others < MaxOther
    /\ order \in Orders(store, c)
    /\ Len(order) > 1
    /\ store' = UpsertRows(store, OtherUpdates(order, c), revision = "stepwise", clock + 1)
    /\ others' = others + 1
    /\ notify' = TRUE
    /\ last' = Step("otherReposition", NoId)
    /\ UNCHANGED <<revision, form, clock, items, loading, draggedItem, net, nreq>>
    /\ UNCHANGED <<shareVars, pageVars>>

(***************************************************************************)
(* The item view's specification.                                          *)
(***************************************************************************)
\* the store when the view is opened: the three items with the positions a
\* reposition left them, all unchecked (A, B, C) or with C checked (A, B | C)
InitRow(i, c) ==
    [present |-> TRUE, checked |-> c,
     position |-> IF c THEN 0 ELSE Created0[i] - 1, created_at |-> Created0[i]]

InitStores ==
    {[i \in RowIds |-> IF i = NewId THEN NoRow ELSE InitRow(i, FALSE)],
     [i \in RowIds |-> IF i = NewId THEN NoRow ELSE InitRow(i, i = "C")]}

\* the sharing model's variables while the item view is looked at
ShareIdle ==
    /\ profiles = {}
    /\ lists = [l \in ListIds |-> NoAccount]
    /\ members = NoMembers
    /\ ncalls = 0
    /\ rpc = NoCall
    /\ listRows = NoRows
    /\ itemBy = NoCreators
    /\ seen = NoSeen

\* the view is mounted with a session: items = [], loading, and the load's
\* fetchItems() in flight
Mounted(rev) ==
    /\ revision = rev
    /\ store \in InitStores
    /\ clock = 3
    /\ items = << >>
    /\ loading = TRUE
    /\ draggedItem = NoItem
    /\ net = {FetchRequest("load")}
    /\ nreq = 1
    /\ others = 0
    /\ notify = FALSE
    /\ last = NoStep
    /\ form = NoForm
    /\ ShareIdle
    /\ ViewOpen

Directions == {"up", "down"}

\* what both revisions of the view share, and the store
Common ==
    \/ \E k \in 1..Len(items) : ToggleItem(k)
    \/ \E r \in net : ToggleDone(r)
    \/ \E k \in 1..Len(items) : DeleteItem(k)
    \/ \E r \in net : DeleteDone(r)
    \/ \E r \in net : FetchDone(r)
    \/ RealtimeEvent
    \/ \E r \in net : ServeFetch(r)
    \/ \E r \in net : ServeWrite(r)
    \/ \E r \in net : ServeError(r)
    \/ \E i \in ItemIds : OtherToggle(i)
    \/ \E i \in ItemIds : OtherDelete(i)

\* the stepwise revision (lines 668-1492), the later one
Init == Mounted("stepwise")

Next ==
    \/ Common
    \/ \E it \in MoveInputs, d \in Directions : MoveItem(it, d)
    \/ \E r \in net : SaveDone(r)
    \/ TypeText
    \/ AddItem
    \/ \E r \in net : AddDone(r)

Spec == Init /\ [][Next]_vars

\* the stepwise revision with its load done: the view holds what the load fetched
InitLoaded ==
    /\ revision = "stepwise"
    /\ store \in InitStores
    /\ clock = 3
    /\ items \in FetchItems(store)
    /\ loading = FALSE
    /\ draggedItem = NoItem
    /\ net = {}
    /\ nreq = 0
    /\ others = 0
    /\ notify = FALSE
    /\ last = NoStep
    /\ form = NoForm
    /\ ShareIdle
    /\ ViewOpen

SpecLoaded == InitLoaded /\ [][Next]_vars

\* the stepwise revision with a store and a network that never fail: every
\* request is answered from the store
NextAnswered ==
    \/ \E k \in 1..Len(items) : ToggleItem(k)
    \/ \E r \in net : ToggleDone(r)
    \/ \E r \in net : FetchDone(r)
    \/ RealtimeEvent
    \/ \E r \in net : ServeFetch(r)
    \/ \E r \in net : ServeWrite(r)
    \/ \E i \in ItemIds : OtherToggle(i)

SpecAnswered == Init /\ [][NextAnswered]_vars

\* the stepwise revision, loaded, on a list whose item C was checked and
\* unchecked again: it kept the position 0 it had among the checked ones
InitAdd ==
    /\ revision = "stepwise"
    /\ store = [i \in RowIds |-> IF i = NewId THEN NoRow
                                  ELSE IF i = "C" THEN [InitRow(i, TRUE) EXCEPT !.checked = FALSE]
                                  ELSE InitRow(i, FALSE)]
    /\ clock = 3
    /\ items \in FetchItems(store)
    /\ loading = FALSE
    /\ draggedItem = NoItem
    /\ net = {}
    /\ nreq = 0
    /\ others = 0
    /\ notify = FALSE
    /\ last = NoStep
    /\ form = NoForm
    /\ ShareIdle
    /\ ViewOpen

\* moving and adding, every request answered from the store
NextAdd ==
    \/ \E it \in MoveInputs, d \in Directions : MoveItem(it, d)
    \/ \E r \in net : SaveDone(r)
    \/ TypeText
    \/ AddItem
    \/ \E r \in net : AddDone(r)
    \/ \E r \in net : FetchDone(r)
    \/ RealtimeEvent
    \/ \E r \in net : ServeFetch(r)
    \/ \E r \in net : ServeWrite(r)

SpecAdd == InitAdd /\ [][NextAdd]_vars

\* the drag revision (lines 1-667)
InitDrag == Mounted("drag")

NextDrag ==
    \/ Common
    \/ \E it \in MoveInputs, d \in Directions : MoveItemSwap(it, d)
    \/ \E r \in net : SwapFirstDone(r)
    \/ \E r \in net : SwapSecondDone(r)
    \/ \E k \in 1..Len(items) : DragStart(k)
    \/ \E k \in 1..Len(items) : DragOver(k)
    \/ DragEnd
    \/ \E r \in net : DragSaveDone(r)

SpecDrag == InitDrag /\ [][NextDrag]_vars

\* the list collection view of src/app/page.tsx, the account being a member
\* of three lists
InitLists ==
    /\ Mounted("lists")
    /\ \A i \in RowIds : ~store[i].checked

NextLists ==
    \/ \E r \in net : FetchListsDone(r)
    \/ \E l \in MoveInputs, d \in Directions : MoveList(l, d)
    \/ \E r \in net : SaveListsDone(r)
    \/ TypeListName
    \/ CreateList
    \/ \E r \in net : CreateDone(r)
    \/ RealtimeEvent
    \/ \E r \in net : ServeFetch(r)
    \/ \E r \in net : ServeWrite(r)
    \/ \E r \in net : ServeError(r)

SpecLists == InitLists /\ [][NextLists]_vars

\* the item view (stepwise revision) or the list collection view
InitViews == Init \/ InitLists

NextViews ==
    \/ revision = "stepwise" /\ Next
    \/ revision = "lists" /\ NextLists

SpecViews == InitViews /\ [][NextViews]_vars

\* any of the three views that persist an order, with another member
\* repositioning the same entities
InitWriters == Init \/ InitDrag \/ InitLists

NextWriters ==
    \/ revision = "stepwise" /\ Next
    \/ revision = "drag" /\ NextDrag
    \/ revision = "lists" /\ NextLists
    \/ \E c \in BOOLEAN : \E order \in Orders(store, c) : OtherReposition(c, order)

SpecWriters == InitWriters /\ [][NextWriters]_vars

(***************************************************************************)
(* The session gate and the realtime subscription of a view: the list      *)
(* page (revision "stepwise") or the list collection (revision "lists").   *)
(***************************************************************************)
\* the mount effect's getSession().then(...): without a session the router is
\* sent to the login page; with one the user is set and the load is fetched
SessionChecked ==
    /\ sessionCheck = "pending"
    /\ sessionCheck' = "settled"
    /\ IF ~session
       THEN /\ route' = "login"
            /\ UNCHANGED <<user, net, nreq>>
       ELSE /\ CanSend
            /\ user' = mounted
            /\ net' = Send(net, FetchRequest("load"))
            /\ nreq' = nreq + 1
            /\ route' = route
    /\ last' = NoStep
    /\ UNCHANGED <<revision, form, store, clock, items, loading, draggedItem, others, notify>>
    /\ UNCHANGED <<session, mounted, effectUser, channels>>
    /\ UNCHANGED notSession

\* the realtime effect runs after a render in which user has changed: without
\* a user it returns, with one it subscribes the view's channel
Subscribe ==
    /\ mounted /\ user # effectUser
    /\ effectUser' = user
    /\ channels' = IF user THEN channels + 1 ELSE channels
    /\ last' = NoStep
    /\ UNCHANGED <<revision, form, store, clock, items, loading, draggedItem, net, nreq,
                   others, notify>>
    /\ UNCHANGED <<session, sessionCheck, user, route, mounted>>
    /\ UNCHANGED notSession

\* the session ends.  The list collection's onAuthStateChange callback sends
\* the router to the login page; the list page registers no such callback.
SignedOut ==
    /\ session
    /\ session' = FALSE
    /\ route' = IF mounted /\ revision \in ListRevisions THEN "login" ELSE route
    /\ last' = NoStep
    /\ UNCHANGED <<revision, form, store, clock, items, loading, draggedItem, net, nreq,
                   others, notify>>
    /\ UNCHANGED <<sessionCheck, user, mounted, effectUser, channels>>
    /\ UNCHANGED notSession

\* a cleanup that leaves the channel subscribed
KeepChannel(n, ran) == n

\* the realtime effect's cleanup: supabase.removeChannel(channel)
RemoveChannel(n, ran) == IF ran THEN n - 1 ELSE n

\* the view unmounts (the router has left it, or the user navigates away):
\* the effects' cleanups run and the component's state is gone
Unmount ==
    /\ mounted
    /\ mounted' = FALSE
    /\ channels' = RemoveChannel(channels, effectUser)
    /\ route' = IF route = "view" THEN "away" ELSE route
    /\ last' = NoStep
    /\ UNCHANGED <<revision, form, store, clock, items, loading, draggedItem, net, nreq,
                   others, notify>>
    /\ UNCHANGED <<session, sessionCheck, user, effectUser>>
    /\ UNCHANGED notSession

\* the realtime service delivers the pending postgres_changes event: each
\* subscribed channel of the view calls its callback, which fetches
Deliver ==
    /\ notify
    /\ notify' = FALSE
    /\ IF channels > 0
       THEN /\ CanSend
            /\ net' = Send(net, FetchRequest("realtime"))
            /\ nreq' = nreq + 1
       ELSE UNCHANGED <<net, nreq>>
    /\ last' = [Step("delivered", NoId) EXCEPT !.ok = channels > 0]
    /\ UNCHANGED <<revision, form, store, clock, items, loading, draggedItem, others>>
    /\ UNCHANGED sessionVars
    /\ UNCHANGED notSession

\* a view is mounted: nothing is fetched yet, getSession() is pending
InitSession ==
    /\ revision \in {"stepwise", "lists"}
    /\ store \in InitStores
    /\ revision = "lists" => \A i \in RowIds : ~store[i].checked
    /\ clock = 3
    /\ items = << >>
    /\ loading = TRUE
    /\ draggedItem = NoItem
    /\ net = {}
    /\ nreq = 0
    /\ others = 0
    /\ notify = FALSE
    /\ last = NoStep
    /\ form = NoForm
    /\ ShareIdle
    /\ list = NoMedia /\ media = NoMedia /\ uploading = "null"
    /\ toast = NoToast /\ nfiles = 0
    /\ counting = NoCounting /\ shown = NoCounts
    /\ shareEmail = "" /\ sharing = FALSE
    /\ modes = NoModes
    /\ sw = NewWorker
    /\ session \in BOOLEAN
    /\ sessionCheck = "pending"
    /\ user = FALSE
    /\ route = "view"
    /\ mounted = TRUE
    /\ effectUser = FALSE
    /\ channels = 0

NextSession ==
    \/ SessionChecked
    \/ Subscribe
    \/ SignedOut
    \/ Unmount
    \/ Deliver
    \/ \E r \in net : revision = "stepwise" /\ FetchDone(r)
    \/ \E r \in net : FetchListsDone(r)
    \/ \E r \in net : ServeFetch(r)
    \/ \E r \in net : ServeError(r)
    \/ \E c \in BOOLEAN : \E order \in Orders(store, c) : OtherReposition(c, order)

SpecSession == InitSession /\ [][NextSession]_vars

(***************************************************************************)
(* The list's media (list page, lines 934-1002).  A request of uploadMedia *)
(* or resetMedia carries the kind of media in id and the url in position.  *)
(***************************************************************************)
MediaTypes == {"bg", "icon"}

\* showToast(message, type)
Toast(message, type) == [message |-> message, type |-> type]

\* uploadMedia(file, type), up to its first await: the file is sent to the bucket
UploadMedia(type) ==
    /\ CanSend
    /\ uploading' = type
    /\ net' = Send(net, [Req("upload", "uploadMedia") EXCEPT !.id = type])
    /\ nreq' = nreq + 1
    /\ last' = NoStep
    /\ UNCHANGED <<revision, form, store, clock, items, loading, draggedItem, others, notify>>
    /\ UNCHANGED <<list, media, toast, nfiles>>
    /\ UNCHANGED notMedia

\* the bucket stores the file; its public url is new
ServeUpload(r) ==
    /\ r \in Sent /\ r.kind = "upload"
    /\ nfiles' = nfiles + 1
    /\ net' = (net \ {r}) \cup {Served([r EXCEPT !.position = nfiles + 2], FALSE, << >>)}
    /\ last' = NoStep
    /\ UNCHANGED <<revision, form, store, clock, items, loading, draggedItem, nreq,
                   others, notify>>
    /\ UNCHANGED <<list, media, uploading, toast>>
    /\ UNCHANGED notMedia

\* uploadMedia after the upload: an error is thrown to the catch, which shows
\* its message; otherwise the update of the list's row is sent
UploadDone(r) ==
    /\ r \in Done /\ r.kind = "upload"
    /\ IF r.error
       THEN /\ net' = net \ {r}
            /\ toast' = Toast("uploadError", "error")
            /\ uploading' = "null"
            /\ last' = Step("uploadFailed", r.id)
       ELSE /\ net' = (net \ {r}) \cup
                        {[Req("media", "uploadMedia") EXCEPT
                            !.copy = r.copy, !.id = r.id, !.position = r.position]}
            /\ UNCHANGED <<toast, uploading>>
            /\ last' = NoStep
    /\ UNCHANGED <<revision, form, store, clock, items, loading, draggedItem, nreq,
                   others, notify>>
    /\ UNCHANGED <<list, media, nfiles>>
    /\ UNCHANGED notMedia

\* update lists set <the kind's column> = url where id = listId
ServeMedia(r) ==
    /\ r \in Sent /\ r.kind = "media"
    /\ media' = [media EXCEPT ![r.id] = r.position]
    /\ net' = (net \ {r}) \cup {Served(r, FALSE, << >>)}
    /\ last' = NoStep
    /\ UNCHANGED <<revision, form, store, clock, items, loading, draggedItem, nreq,
                   others, notify>>
    /\ UNCHANGED <<list, uploading, toast, nfiles>>
    /\ UNCHANGED notMedia

\* a merge of the new url that does not look at the error
MergeMediaAlways(l, r) == [l EXCEPT ![r.id] = r.position]

\* setList(prev => ({ ...prev, ...updateData })), reached when no error was thrown
MergeMedia(l, r) == IF r.error THEN l ELSE [l EXCEPT ![r.id] = r.position]

\* uploadMedia after the update: an error is thrown to the catch; otherwise the
\* local list takes the url and the success is shown; setUploading(null)
MediaDone(r) ==
    /\ r \in Done /\ r.kind = "media" /\ r.origin = "uploadMedia"
    /\ list' = MergeMedia(list, r)
    /\ toast' = IF r.error THEN Toast("dbError", "error") ELSE Toast(r.id, "success")
    /\ uploading' = "null"
    /\ net' = net \ {r}
    /\ last' = IF r.error THEN Step("uploadFailed", r.id) ELSE NoStep
    /\ UNCHANGED <<revision, form, store, clock, items, loading, draggedItem, nreq,
                   others, notify>>
    /\ UNCHANGED <<media, nfiles>>
    /\ UNCHANGED notMedia

\* resetMedia(type), confirmed, up to its await: the update to null is sent
ResetMedia(type) ==
    /\ CanSend
    /\ net' = Send(net, [Req("media", "resetMedia") EXCEPT !.id = type, !.position = 0])
    /\ nreq' = nreq + 1
    /\ last' = NoStep
    /\ UNCHANGED <<revision, form, store, clock, items, loading, draggedItem, others, notify>>
    /\ UNCHANGED mediaVars
    /\ UNCHANGED notMedia

\* resetMedia after its await
ResetDone(r) ==
    /\ r \in Done /\ r.kind = "media" /\ r.origin = "resetMedia"
    /\ list' = MergeMedia(list, r)
    /\ toast' = IF r.error THEN toast ELSE Toast(r.id, "success")
    /\ net' = net \ {r}
    /\ last' = NoStep
    /\ UNCHANGED <<revision, form, store, clock, items, loading, draggedItem, nreq,
                   others, notify>>
    /\ UNCHANGED <<media, uploading, nfiles>>
    /\ UNCHANGED notMedia

\* showToast's timer: setToast(null)
ToastExpires ==
    /\ toast # NoToast
    /\ toast' = NoToast
    /\ last' = NoStep
    /\ UNCHANGED <<revision, form, store, clock, items, loading, draggedItem, net, nreq,
                   others, notify>>
    /\ UNCHANGED <<list, media, uploading, nfiles>>
    /\ UNCHANGED notMedia

\* the list page is open on a list with its media as fetched
InitMedia ==
    /\ ItemViewIdle
    /\ ShareIdle
    /\ session = TRUE /\ sessionCheck = "settled" /\ user = TRUE /\ route = "view"
    /\ mounted = TRUE /\ effectUser = TRUE /\ channels = 1
    /\ media \in {NoMedia, [bg |-> 1, icon |-> 1]}
    /\ list = media
    /\ uploading = "null"
    /\ toast = NoToast
    /\ nfiles = 0
    /\ counting = NoCounting /\ shown = NoCounts
    /\ shareEmail = "" /\ sharing = FALSE
    /\ modes = NoModes
    /\ sw = NewWorker

NextMedia ==
    \/ \E type \in MediaTypes : UploadMedia(type)
    \/ \E r \in net : ServeUpload(r)
    \/ \E r \in net : UploadDone(r)
    \/ \E r \in net : ServeMedia(r)
    \/ \E r \in net : MediaDone(r)
    \/ \E type \in MediaTypes : ResetMedia(type)
    \/ \E r \in net : ResetDone(r)
    \/ \E r \in net : ServeError(r)
    \/ ToastExpires

SpecMedia == InitMedia /\ [][NextMedia]_vars

(***************************************************************************)
(* The counts of a list in the list collection (src/app/page.tsx, lines    *)
(* 46-67).  In revision "counts" store holds the items of one list that    *)
(* the collection shows.                                                   *)
(***************************************************************************)
\* select count(*) from items where list_id = list.id
TotalCount(st) == Cardinality({i \in RowIds : st[i].present})

\* select count(*) from items where list_id = list.id and checked = false
UncheckedCount(st) == Cardinality({i \in RowIds : st[i].present /\ ~st[i].checked})

\* fetchLists has the lists and starts the list's two count queries
StartCounts ==
    /\ revision = "counts" /\ counting.phase = "idle" /\ CanSend
    /\ counting' = [NoCounting EXCEPT !.phase = "total"]
    /\ nreq' = nreq + 1
    /\ last' = NoStep
    /\ UNCHANGED <<revision, form, store, clock, items, loading, draggedItem, net,
                   others, notify>>
    /\ UNCHANGED shown
    /\ UNCHANGED notCounts

\* the first query is answered: the count, or null when the query has failed
ServeTotalCount(err) ==
    /\ counting.phase = "total"
    /\ counting' = [counting EXCEPT !.phase = "unchecked",
                                    !.totalCount = IF err THEN 0 ELSE TotalCount(store)]
    /\ last' = NoStep
    /\ UNCHANGED <<revision, form, store, clock, items, loading, draggedItem, net, nreq,
                   others, notify>>
    /\ UNCHANGED shown
    /\ UNCHANGED notCounts

\* the second query is answered
ServeUncheckedCount(err) ==
    /\ counting.phase = "unchecked"
    /\ counting' = [counting EXCEPT !.phase = "counted",
                                    !.uncheckedCount = IF err THEN 0 ELSE UncheckedCount(store)]
    /\ last' = NoStep
    /\ UNCHANGED <<revision, form, store, clock, items, loading, draggedItem, net, nreq,
                   others, notify>>
    /\ UNCHANGED shown
    /\ UNCHANGED notCounts

\* setLists(listsWithCounts): item_count: totalCount || 0, unchecked_count:
\* uncheckedCount || 0
SetListsWithCounts ==
    /\ counting.phase = "counted"
    /\ shown' = [listed |-> TRUE, item_count |-> counting.totalCount,
                 unchecked_count |-> counting.uncheckedCount]
    /\ counting' = NoCounting
    /\ last' = NoStep
    /\ UNCHANGED <<revision, form, store, clock, items, loading, draggedItem, net, nreq,
                   others, notify>>
    /\ UNCHANGED notCounts

\* another member adds an item to the list
OtherAdd ==
    /\ others < MaxOther
    /\ ~store[NewId].present
    /\ store' = InsertRow(store, NewId, TotalCount(store), clock + 1)
    /\ clock' = clock + 1
    /\ others' = others + 1
    /\ notify' = TRUE
    /\ last' = NoStep
    /\ UNCHANGED <<revision, form, items, loading, draggedItem, net, nreq>>
    /\ UNCHANGED <<shareVars, pageVars>>

\* the list collection is open and shows a list of two or three items
InitCounts ==
    /\ revision = "counts"
    /\ store \in InitStores \cup {[i \in RowIds |-> IF i \in {"C", NewId} THEN NoRow
                                                    ELSE InitRow(i, FALSE)]}
    /\ clock = 3
    /\ items = << >>
    /\ loading = FALSE
    /\ draggedItem = NoItem
    /\ net = {}
    /\ nreq = 0
    /\ others = 0
    /\ notify = FALSE
    /\ last = NoStep
    /\ form = NoForm
    /\ ShareIdle
    /\ ViewOpen

NextCounts ==
    \/ StartCounts
    \/ \E err \in BOOLEAN : ServeTotalCount(err)
    \/ \E err \in BOOLEAN : ServeUncheckedCount(err)
    \/ SetListsWithCounts
    \/ \E i \in ItemIds : OtherToggle(i)
    \/ \E i \in ItemIds : OtherDelete(i)
    \/ OtherAdd

SpecCounts == InitCounts /\ [][NextCounts]_vars

(***************************************************************************)
(* Clearing the checked items (list page, lines 1037-1047).  The request   *)
(* carries the ids it names in rows.                                       *)
(***************************************************************************)
\* items.filter((i) => i.checked).map((i) => i.id)
CheckedIds(s) ==
    LET c == SelectSeq(s, LAMBDA x : x.checked) IN [k \in 1..Len(c) |-> c[k].id]

\* prev.filter((i) => !i.checked)
WithoutChecked(s) == SelectSeq(s, LAMBDA x : ~x.checked)

\* clearChecked(), up to its await; confirmed is the answer to confirm()
ClearChecked(confirmed) ==
    /\ Idle
    /\ LET checkedIds == CheckedIds(items) IN
        IF checkedIds = << >> \/ ~confirmed
        THEN /\ last' = [Step("clearChecked", NoId) EXCEPT !.ok = FALSE]
             /\ UNCHANGED <<items, net, nreq>>
        ELSE /\ CanSend
             /\ items' = WithoutChecked(items)
             /\ net' = Send(net, [Req("clear", "clearChecked") EXCEPT !.rows = checkedIds])
             /\ nreq' = nreq + 1
             /\ last' = Step("clearChecked", NoId)
    /\ UNCHANGED <<revision, form, store, clock, loading, draggedItem, others, notify>>
    /\ UNCHANGED <<shareVars, pageVars>>

\* clearChecked after its await: fetchItems(), whatever the delete returned
ClearDone(r) ==
    /\ r \in Done /\ r.kind = "clear"
    /\ CanSend
    /\ net' = Send(net \ {r}, FetchRequest("clearChecked"))
    /\ nreq' = nreq + 1
    /\ last' = Step("clearDone", NoId)
    /\ UNCHANGED <<revision, form, store, clock, items, loading, draggedItem, others, notify>>
    /\ UNCHANGED <<shareVars, pageVars>>

NextClear ==
    \/ \E k \in 1..Len(items) : ToggleItem(k)
    \/ \E r \in net : ToggleDone(r)
    \/ \E confirmed \in BOOLEAN : ClearChecked(confirmed)
    \/ \E r \in net : ClearDone(r)
    \/ \E r \in net : FetchDone(r)
    \/ RealtimeEvent
    \/ \E r \in net : ServeFetch(r)
    \/ \E r \in net : ServeWrite(r)
    \/ \E r \in net : ServeError(r)
    \/ \E i \in ItemIds : OtherToggle(i)

SpecClear == InitLoaded /\ [][NextClear]_vars

(***************************************************************************)
(* The share form of the list page (lines 1011-1035), opened by account    *)
(* "u1" on list "L1".  A request of shareList carries the e-mail address   *)
(* in id and, once answered, the procedure's outcome in data.              *)
(***************************************************************************)
\* the message of the toast for an error whose message is m
ShareErrorToast(m) ==
    IF m = "User not found" THEN Toast("Korystuvacha ne znaideno", "error")
    ELSE Toast(m, "error")

\* err instanceof Error ? err.message : 'Pomylka'
ErrorMessage(isError, m) == IF isError THEN m ELSE "Pomylka"

\* what the user types: nothing, the address of no account, the address of "u2"
TypedEmails == {"", "e0", "e2"}

\* the user types an address into the share form, or clears it
TypeShareEmail(e) ==
    /\ shareEmail # e
    /\ shareEmail' = e
    /\ last' = NoStep
    /\ UNCHANGED <<revision, form, store, clock, items, loading, draggedItem, net, nreq,
                   others, notify>>
    /\ UNCHANGED <<sharing, shareVars, sessionVars, mediaVars, countVars, modeVars, swVars>>

\* shareList(), up to its await (the button is disabled while sharing, the
\* Enter key is not)
ShareListClick ==
    /\ shareEmail # "" /\ CanSend
    /\ sharing' = TRUE
    /\ net' = Send(net, [Req("share", "shareList") EXCEPT !.id = shareEmail])
    /\ nreq' = nreq + 1
    /\ last' = NoStep
    /\ UNCHANGED <<revision, form, store, clock, items, loading, draggedItem, others, notify>>
    /\ UNCHANGED <<shareEmail, shareVars, sessionVars, mediaVars, countVars, modeVars, swVars>>

\* share_list_by_email runs for account "u1" on list "L1"
ServeShare(r) ==
    /\ r \in Sent /\ r.kind = "share"
    /\ LET out == ShareListByEmail(members, profiles, "u1", "L1", r.id) IN
         /\ members' = out.members
         /\ net' = (net \ {r}) \cup {Served(r, out.result # "true", <<out.result>>)}
    /\ last' = NoStep
    /\ UNCHANGED <<revision, form, store, clock, items, loading, draggedItem, nreq,
                   others, notify>>
    /\ UNCHANGED <<profiles, lists, ncalls, rpc, listRows, itemBy, seen>>
    /\ UNCHANGED pageVars

\* the call does not reach the store
ServeShareError(r) ==
    /\ r \in Sent /\ r.kind = "share"
    /\ net' = (net \ {r}) \cup {Served(r, TRUE, <<"Failed to fetch">>)}
    /\ last' = NoStep
    /\ UNCHANGED <<revision, form, store, clock, items, loading, draggedItem, nreq,
                   others, notify>>
    /\ UNCHANGED <<shareVars, pageVars>>

\* shareList() after its await.  The error the client library hands back is
\* thrown as it is; whether it is an instance of Error is the library's
\* choice.
ShareDone(r, isError) ==
    /\ r \in Done /\ r.kind = "share"
    /\ IF r.error
       THEN /\ toast' = ShareErrorToast(ErrorMessage(isError, r.data[1]))
            /\ UNCHANGED shareEmail
            /\ last' = Step("shareFailed", r.id)
       ELSE /\ toast' = Toast("Spysok podileno", "success")
            /\ shareEmail' = ""
            /\ last' = NoStep
    /\ sharing' = FALSE
    /\ net' = net \ {r}
    /\ UNCHANGED <<revision, form, store, clock, items, loading, draggedItem, nreq,
                   others, notify>>
    /\ UNCHANGED <<list, media, uploading, nfiles>>
    /\ UNCHANGED <<shareVars, sessionVars, countVars, modeVars, swVars>>

\* the list page of "L1", a list of "u1" and "u2", is open for "u1"
InitShareForm ==
    /\ ItemViewIdle
    /\ profiles = {"u1", "u2"}
    /\ lists = [l \in ListIds |-> IF l = "L1" THEN "u1" ELSE NoAccount]
    /\ members \in {[NoMembers EXCEPT !["L1", "u1"] = 1],
                     [NoMembers EXCEPT !["L1", "u1"] = 1, !["L1", "u2"] = 1]}
    /\ ncalls = 0
    /\ rpc = NoCall
    /\ listRows = NoRows
    /\ itemBy = NoCreators
    /\ seen = NoSeen
    /\ ViewOpen

NextShareForm ==
    \/ \E e \in TypedEmails : TypeShareEmail(e)
    \/ ShareListClick
    \/ \E r \in net : ServeShare(r)
    \/ \E r \in net : ServeShareError(r)
    \/ \E r \in net, isError \in BOOLEAN : ShareDone(r, isError)
    \/ DeleteMember("u1", "L1", "u1")
    \/ ToastExpires

SpecShareForm == InitShareForm /\ [][NextShareForm]_vars

(***************************************************************************)
(* The view modes: the header's edit and sort buttons and the click        *)
(* handlers of an item row (list page, lines 1094-1115 and 1264-1350) and  *)
(* of a list card (home page, lines 180-201 and 221-231).                  *)
(***************************************************************************)
\* the edit button: setIsEditingItems(!isEditingItems); setIsSorting(false)
EditClicked(m) == [m EXCEPT !.isEditingItems = ~@, !.isSorting = FALSE]

\* a sort button that leaves the editing mode as it is
SortClickedOnly(m) == [m EXCEPT !.isSorting = ~@]

\* the sort button: setIsSorting(!isSorting); setIsEditingItems(false)
SortClicked(m) == [m EXCEPT !.isSorting = ~@, !.isEditingItems = FALSE]

\* a click that changes nothing but the modes
OnlyModes(m) ==
    /\ modes' = m
    /\ last' = NoStep
    /\ UNCHANGED <<revision, form, store, clock, items, loading, draggedItem, net, nreq,
                   others, notify>>
    /\ UNCHANGED <<shareVars, sessionVars, mediaVars, countVars, shareFormVars, swVars>>

ClickEditMode == route = "view" /\ OnlyModes(EditClicked(modes))

ClickSortMode == route = "view" /\ OnlyModes(SortClicked(modes))

\* the row's onClick: !isSorting && !isEditingItems && toggleItem(item)
ClickItemRow(k) ==
    /\ revision = "stepwise" /\ route = "view"
    /\ k \in 1..Len(items)
    /\ IF ~modes.isSorting /\ ~modes.isEditingItems THEN ToggleItem(k)
       ELSE UNCHANGED vars

\* the text container's onClick
ClickItemText(k) ==
    /\ revision = "stepwise" /\ route = "view"
    /\ k \in 1..Len(items)
    /\ IF modes.isEditingItems
       THEN OnlyModes([modes EXCEPT !.editingItemId = items[k].id])
       ELSE IF ~modes.isSorting THEN ToggleItem(k)
       ELSE UNCHANGED vars

\* the delete button, rendered when the sorting mode is off
ClickItemDelete(k) ==
    /\ revision = "stepwise" /\ route = "view"
    /\ ~modes.isSorting
    /\ DeleteItem(k)

\* the arrow buttons, rendered when the sorting mode is on
ClickMove(e, d) ==
    /\ route = "view"
    /\ modes.isSorting
    /\ IF revision = "stepwise" THEN MoveItem(e, d) ELSE MoveList(e, d)

\* the editor loses the focus with its text as it was: setEditingItemId(null)
BlurEditor ==
    /\ route = "view"
    /\ modes.editingItemId # NoId
    /\ OnlyModes([modes EXCEPT !.editingItemId = NoId])

\* a list card's onClick: start editing the name, or router.push to the list
ClickListCard(k) ==
    /\ revision = "lists" /\ route = "view"
    /\ k \in 1..Len(items)
    /\ IF modes.isEditingItems
       THEN OnlyModes([modes EXCEPT !.editingItemId = items[k].id])
       ELSE IF ~modes.isSorting
       THEN /\ route' = "list"
            /\ last' = NoStep
            /\ UNCHANGED <<revision, form, store, clock, items, loading, draggedItem, net,
                           nreq, others, notify>>
            /\ UNCHANGED <<session, sessionCheck, user, mounted, effectUser, channels>>
            /\ UNCHANGED notSession
       ELSE UNCHANGED vars

\* a view that has loaded its entities
InitModes ==
    /\ revision \in {"stepwise", "lists"}
    /\ store \in InitStores
    /\ revision = "lists" => \A i \in RowIds : ~store[i].checked
    /\ clock = 3
    /\ items \in Selected(store)
    /\ loading = FALSE
    /\ draggedItem = NoItem
    /\ net = {}
    /\ nreq = 0
    /\ others = 0
    /\ notify = FALSE
    /\ last = NoStep
    /\ form = NoForm
    /\ ShareIdle
    /\ ViewOpen

NextModes ==
    \/ ClickEditMode
    \/ ClickSortMode
    \/ \E k \in 1..Len(items) : ClickItemRow(k)
    \/ \E k \in 1..Len(items) : ClickItemText(k)
    \/ \E k \in 1..Len(items) : ClickItemDelete(k)
    \/ \E e \in MoveInputs, d \in Directions : ClickMove(e, d)
    \/ BlurEditor
    \/ \E k \in 1..Len(items) : ClickListCard(k)
    \/ \E r \in net : ToggleDone(r)
    \/ \E r \in net : DeleteDone(r)
    \/ \E r \in net : revision = "stepwise" /\ SaveDone(r)
    \/ \E r \in net : SaveListsDone(r)
    \/ \E r \in net : ServeWrite(r)

SpecModes == InitModes /\ [][NextModes]_vars

(***************************************************************************)
(* The service worker (public/sw.js).                                      *)
(***************************************************************************)
\* ASSETS_TO_CACHE, two of them
ASSETS_TO_CACHE == {"/", "/icon.svg"}

\* the requests of a page: of the origin, of the store's API, of another origin
Urls == {"/", "/icon.svg", "/list/1", "https://p.supabase.co/rest", "https://cdn/font"}
Methods == {"GET", "POST"}
SameOrigin(url) == url \in {"/", "/icon.svg", "/list/1"}

\* event.request.url.includes('supabase.co')
IncludesSupabase(url) == url = "https://p.supabase.co/rest"

\* the status of what the network answers
Statuses == {200, 203, 404}

\* what the network answers to a request: a response of the origin is basic,
\* one of another origin is cors, or opaque with status 0
Responses(url) ==
    IF SameOrigin(url) THEN {[status |-> s, type |-> "basic"] : s \in Statuses}
    ELSE {[status |-> s, type |-> "cors"] : s \in Statuses}
         \cup {[status |-> 0, type |-> "opaque"]}

\* cache.addAll accepts a response with an ok status other than 206
AddAllAccepts(status) == status >= 200 /\ status <= 299 /\ status # 206

\* a fetch listener that stores every response
CacheableAlways(resp) == TRUE

\* the fetch listener's test before cache.put: the response is not stored when
\* !networkResponse || status !== 200 || type !== 'basic'
Cacheable(resp) == resp.status = 200 /\ resp.type = "basic"

\* cache.put: the entry replaces the one the cache holds for the url
Put(entries, cache, url, resp) ==
    {e \in entries : ~(e.cache = cache /\ e.url = url)}
        \cup {Entry(cache, url, resp.status, resp.type)}

\* caches.match(event.request): a response held for the url in any cache
Matches(entries, url) == {e \in entries : e.url = url}

\* the install listener: caches.open(CACHE_NAME), cache.addAll(ASSETS_TO_CACHE);
\* answered gives the status the server answers for each asset.  When one is
\* refused nothing is stored and the installation fails.
Install(answered) ==
    /\ sw.state = "installing"
    /\ answered \in [ASSETS_TO_CACHE -> Statuses]
    /\ IF \A u \in ASSETS_TO_CACHE : AddAllAccepts(answered[u])
       THEN sw' = [sw EXCEPT !.state = "installed",
                             !.names = @ \cup {CACHE_NAME},
                             !.entries = @ \cup {Entry(CACHE_NAME, u, answered[u], "basic") :
                                                   u \in ASSETS_TO_CACHE}]
       ELSE sw' = [sw EXCEPT !.state = "redundant", !.names = @ \cup {CACHE_NAME}]
    /\ UNCHANGED <<itemVars, shareVars>>
    /\ UNCHANGED <<sessionVars, mediaVars, countVars, shareFormVars, modeVars>>

\* the activate listener: every cache whose name is not CACHE_NAME is deleted
Activate ==
    /\ sw.state = "installed"
    /\ sw' = [sw EXCEPT !.state = "activated",
                        !.names = {n \in @ : n = CACHE_NAME},
                        !.entries = {e \in @ : e.cache = CACHE_NAME}]
    /\ UNCHANGED <<itemVars, shareVars>>
    /\ UNCHANGED <<sessionVars, mediaVars, countVars, shareFormVars, modeVars>>

\* the fetch listener, for a request of a page the worker controls; reached
\* says whether the network answers, resp what it answers
Fetch(method, url, reached, resp) ==
    /\ sw.state = "activated"
    /\ resp \in Responses(url)
    /\ IF method # "GET" \/ IncludesSupabase(url)
       THEN sw' = [sw EXCEPT !.last = Handled(method, url, FALSE, "-", FALSE)]
       ELSE IF Matches(sw.entries, url) # {}
       THEN sw' = [sw EXCEPT !.last = Handled(method, url, TRUE, "cache", FALSE)]
       ELSE IF ~reached
       THEN sw' = [sw EXCEPT !.last = Handled(method, url, FALSE, "-", TRUE)]
       ELSE IF ~Cacheable(resp)
       THEN sw' = [sw EXCEPT !.last = Handled(method, url, TRUE, "network", TRUE)]
       ELSE sw' = [sw EXCEPT !.last = Handled(method, url, TRUE, "network", TRUE),
                             !.names = @ \cup {CACHE_NAME},
                             !.entries = Put(@, CACHE_NAME, url, resp)]
    /\ UNCHANGED <<itemVars, shareVars>>
    /\ UNCHANGED <<sessionVars, mediaVars, countVars, shareFormVars, modeVars>>

NextWorker ==
    \/ \E answered \in [ASSETS_TO_CACHE -> Statuses] : Install(answered)
    \/ Activate
    \/ \E method \in Methods, url \in Urls, reached \in BOOLEAN :
          \E resp \in Responses(url) : Fetch(method, url, reached, resp)

SpecWorker == InitLoaded /\ [][NextWorker]_vars

(***************************************************************************)
(* Properties.                                                             *)
(***************************************************************************)
\* what the user sees of a collection: membership, checked flags and order
View(s) == [k \in 1..Len(s) |-> [id |-> s[k].id, checked |-> s[k].checked]]

\* the local collection is what a fetch of the store would return
LocalEqualsStore == \E d \in FetchItems(store) : View(d) = View(items)

\* nothing is in flight and no change notification is pending
Quiescent == net = {} /\ ~notify /\ ~loading /\ draggedItem = NoItem

\* C1 (reorder round-trip): when the upsert of a reposition gesture has been
\* applied without error, the gesture being the only thing the client did
\* after the load and no collaborator having written, every re-fetch in the
\* defined sort order returns the order shown locally after the gesture.
C1_ReorderRoundTrip ==
    \A r \in net :
        (/\ r.kind = "upsert" /\ r.phase = "done" /\ ~r.error
         /\ nreq = 2 /\ others = 0 /\ draggedItem = NoItem)
        => \A d \in FetchItems(store) : Ids(d) = Ids(items)

\* C2 (reposition failure policy): whenever the handler of a reposition
\* resumes from a failed batched position write, it issues a re-fetch.
C2_RepositionFailureRefetch ==
    [][\A r \in net :
          (r.kind = "upsert" /\ r.phase = "done" /\ r.error /\ r \notin net')
          => \E f \in net' \ net : f.kind = "fetch" /\ f.phase = "sent"]_vars

\* C3 (partition independence): the write of a reposition performed on one
\* partition leaves the stored row (position and checked flag) of every item
\* that is in the other partition in the store unchanged, also when the local
\* copy is stale (no toggle of the client's own being in flight).
C3_PartitionIndependence ==
    [][\A r \in net :
          (r.kind = "upsert" /\ ServeWrite(r) /\ \A q \in net : q.kind # "toggle")
          => \A i \in ItemIds :
                (store[i].present /\ store[i].checked # r.part) => store'[i] = store[i]]_vars

\* the cases in which a stepwise move is to do nothing: the entity is not in
\* the local collection, or it is the first of its partition and moves up, or
\* the last and moves down
AtBoundary(s, item, direction) ==
    LET rel == Partition(s, item.checked)
        k == FindIndexById(rel, item.id)
    IN  \/ item.id \notin IdSet(s)
        \/ k = -1
        \/ direction = "up" /\ k = 0
        \/ direction = "down" /\ k = Len(rel) - 1

C5_ToggleRollback ==
    [][/\ \A k \in 1..Len(items) :
            ToggleItem(k) =>
              /\ \A j \in 1..Len(items') :
                    items'[j].id = items[k].id => items'[j].checked = ~items[k].checked
              /\ \E r \in net' \ net :
                    /\ r.kind = "toggle" /\ r.phase = "sent"
                    /\ r.id = items[k].id /\ r.was = items[k].checked
       /\ \A r \in net :
            (ToggleDone(r) /\ r.error) =>
              \A j \in 1..Len(items') : items'[j].id = r.id => items'[j].checked = r.was]_vars

\* a toggle has just failed and been reverted to the captured flag although
\* the store holds the other flag for the item
C5_Witness ==
    /\ last.op = "toggleFailed"
    /\ \E k \in 1..Len(items) : items[k].id = last.id /\ items[k].checked = last.was
    /\ store[last.id].present /\ store[last.id].checked # last.was

\* C6 (delete rollback): deleteItem removes the item locally in the step that
\* sends the delete; when the delete has failed a fetch is sent; that fetch
\* returns the item if the store holds it, and its result becomes the local
\* collection; so with no other writer, after a failed delete and its
\* re-fetch the item is in the local list again.
C6_DeleteRollback ==
    /\ [][/\ \A k \in 1..Len(items) :
               DeleteItem(k) =>
                 /\ items[k].id \notin IdSet(items')
                 /\ \E r \in net' \ net :
                       r.kind = "delete" /\ r.phase = "sent" /\ r.id = items[k].id
          /\ \A r \in net :
               (DeleteDone(r) /\ r.error) =>
                 \E f \in net' \ net : f.kind = "fetch" /\ f.phase = "sent" /\ f.id = r.id
          /\ \A f \in net :
               (f.origin = "deleteItem" /\ ServeFetch(f) /\ store[f.id].present) =>
                 \E g \in net' \ net : f.id \in IdSet(g.data)
          /\ \A f \in net :
               (f.origin = "deleteItem" /\ FetchDone(f) /\ ~f.error) =>
                 items' = f.data]_vars
    /\ [](last.op = "refetched" /\ last.ok /\ others = 0 /\ nreq <= 3
            => (store[last.id].present /\ last.id \in IdSet(items)))

\* the re-fetch of a failed delete has resolved and the item is shown again
C6_Witness ==
    /\ last.op = "refetched" /\ last.ok
    /\ store[last.id].present /\ last.id \in IdSet(items)

\* C7 (no divergence on failure): when the failure handling of a toggle, a
\* delete or a reposition has completed, its re-fetch included, and nothing
\* else is in flight, the local collection equals the store's.
C7_NoDivergenceOnFailure ==
    (last.op \in {"toggleFailed", "saveFailed", "refetched"} /\ Quiescent)
    => LocalEqualsStore

\* the account share_list_by_email was last called for, if its e-mail is one
ShareTarget == TargetUserId(profiles, rpc.email)

\* C8 (share idempotence): a call of share_list_by_email by a member for the
\* e-mail of an account that is already a member returns true and leaves
\* list_members as it was, with exactly one row for the pair; and no pair
\* ever has more than one row.
C8_ShareIdempotent ==
    /\ \A l \in ListIds, a \in Accounts : members[l, a] <= 1
    /\ (/\ rpc.fn = "share_list_by_email"
        /\ IsMember(rpc.before, rpc.list, rpc.caller)
        /\ ShareTarget # NoAccount
        /\ IsMember(rpc.before, rpc.list, ShareTarget))
       => (/\ rpc.result = "true"
           /\ members = rpc.before
           /\ members[rpc.list, ShareTarget] = 1)

\* a member has shared the list with another account that was a member already
C8_Witness ==
    /\ rpc.fn = "share_list_by_email" /\ rpc.result = "true"
    /\ ShareTarget # NoAccount /\ ShareTarget # rpc.caller
    /\ IsMember(rpc.before, rpc.list, ShareTarget)
    /\ members[rpc.list, ShareTarget] = 1

\* C9 (share not-found): a call of share_list_by_email by a member with an
\* e-mail that matches no account fails with 'User not found' and leaves
\* list_members as it was.
C9_ShareNotFound ==
    (/\ rpc.fn = "share_list_by_email"
     /\ IsMember(rpc.before, rpc.list, rpc.caller)
     /\ ProfilesByEmail(profiles, rpc.email) = {})
    => (rpc.result = "User not found" /\ members = rpc.before)

\* a member has shared a list with an e-mail that matches no account
C9_Witness ==
    /\ rpc.fn = "share_list_by_email"
    /\ IsMember(rpc.before, rpc.list, rpc.caller)
    /\ ProfilesByEmail(profiles, rpc.email) = {}
    /\ rpc.result = "User not found"

\* C10 (share authorization): a call of share_list_by_email by an account that
\* is not a member of the list fails with 'Not authorized' and leaves
\* list_members as it was, whether or not the e-mail matches an account.
C10_ShareNotAuthorized ==
    (rpc.fn = "share_list_by_email" /\ ~IsMember(rpc.before, rpc.list, rpc.caller))
    => (rpc.result = "Not authorized" /\ members = rpc.before)

\* an account that is not a member has called for an e-mail that matches no
\* account, on a list that exists, and was told no more than 'Not authorized'
C10_Witness ==
    /\ rpc.fn = "share_list_by_email"
    /\ ~IsMember(rpc.before, rpc.list, rpc.caller)
    /\ lists[rpc.list] # NoAccount
    /\ ProfilesByEmail(profiles, rpc.email) = {}
    /\ rpc.result = "Not authorized"

\* C11 (membership creation is confined): a membership row (l, a) comes into
\* existence only when a creates l through create_list_with_member, or
\* through share_list_by_email called by an account that is a member of l.
C11_MembershipConfined ==
    [][\A l \in ListIds, a \in Accounts :
          (~IsMember(members, l, a) /\ IsMember(members', l, a))
          => \/ CreateListWithMember(a, l)
             \/ \E uid \in Accounts, e \in Emails :
                   ShareList(uid, l, e) /\ IsMember(members, l, uid)]_vars

\* C13 (creator membership invariant): in every state of the store each
\* existing list has a membership row for its creator, so no list is without
\* a member.
C13_CreatorIsMember ==
    \A l \in ListIds :
        lists[l] # NoAccount =>
            (IsMember(members, l, lists[l]) /\ \E a \in Accounts : IsMember(members, l, a))

\* C12 (membership-gated access): a read or write of list l or of its items
\* by an account that has no membership row for l returns nothing and changes
\* nothing; fetchLists shows exactly the lists the account is a member of;
\* and fetchList of the detail screen of l opened by a non-member redirects.
C12_MembershipGatedAccess ==
    [][/\ (/\ rpc'.fn \in TableOps /\ ncalls' = ncalls + 1
           /\ ~IsMember(members, rpc'.list, rpc'.caller))
          => (listRows' = listRows /\ rpc'.result \in {"0 rows", "error"})
       /\ seen'.op = "fetchLists"
          => seen'.lists = {l \in ListIds :
                              lists[l] # NoAccount /\ IsMember(members, l, seen'.by)}
       /\ (seen'.op = "fetchList" /\ ~IsMember(members, seen'.list, seen'.by))
          => (seen'.redirected /\ seen'.lists = {})]_vars

\* an account that is not a member of an existing list has tried to read the
\* list, which holds an item, and got no row
C12_Witness ==
    /\ rpc.fn = "select lists" /\ rpc.result = "0 rows"
    /\ ~IsMember(rpc.before, rpc.list, rpc.caller)
    /\ lists[rpc.list] # NoAccount
    /\ listRows[rpc.list].item # "none"

\* the rows of d, a select's result, are in the order of the keys: unchecked
\* before checked, then ascending position, then descending creation time
SortedItems(d, st) ==
    \A j, k \in 1..Len(d) :
        j < k =>
            LET a == st[d[j].id]
                b == st[d[k].id]
            IN  /\ a.checked => b.checked
                /\ (a.checked = b.checked) => a.position <= b.position
                /\ (a.checked = b.checked /\ a.position = b.position)
                      => a.created_at >= b.created_at

\* d holds each row of the store once, as stored
AllRows(d, st) ==
    /\ IdSet(d) = {i \in RowIds : st[i].present}
    /\ Len(d) = Cardinality(IdSet(d))
    /\ \A k \in 1..Len(d) : d[k] = LocalItem(st, d[k].id)

\* C14 (fetch sort order): every answer to a fetch holds the rows of the
\* store with all unchecked items before all checked ones, within each group
\* in ascending position, and among equal positions in descending creation
\* time; the list collection's fetch returns the lists in ascending position
\* with ties in descending creation time.
C14_FetchSortOrder ==
    [][\A g \in net' \ net :
          (g.kind = "fetch" /\ g.phase = "done" /\ ~g.error)
          => (AllRows(g.data, store) /\ SortedItems(g.data, store))]_vars

\* a fetch has returned two items of one partition that share a position,
\* the one created later first
C14_Witness ==
    \E g \in net :
        /\ revision = "stepwise"
        /\ g.kind = "fetch" /\ g.phase = "done" /\ ~g.error
        /\ \E j, k \in 1..Len(g.data) :
              /\ j < k
              /\ g.data[j].checked = g.data[k].checked
              /\ g.data[j].position = g.data[k].position
              /\ g.data[j].id = "C" /\ g.data[k].id = "A"

\* C15 (no optimistic create): the step of addItem or createList that sends
\* the insert sets the adding flag and leaves the local collection and the
\* input as they are; the step that resumes from the insert leaves the local
\* collection as it is, clears the flag, and on success clears the input and
\* sends a fetch, on failure keeps the input and sends nothing.
C15_NoOptimisticCreate ==
    [][/\ \A q \in net' \ net :
            (q.kind = "insert" /\ q.phase = "sent")
            => (items' = items /\ form'.text = form.text /\ form'.adding)
       /\ \A r \in net \ net' :
            (r.kind = "insert" /\ r.phase = "done")
            => /\ items' = items
               /\ ~form'.adding
               /\ IF r.error
                  THEN form'.text = form.text /\ net' = net \ {r}
                  ELSE /\ form'.text = ""
                       /\ \E f \in net' \ net : f.kind = "fetch" /\ f.phase = "sent"]_vars

\* createList has resumed from a successful call: the name is cleared, the
\* flag is down, the fetch is in flight and the new list is not shown yet
C15_Witness ==
    /\ revision = "lists"
    /\ form.made /\ ~form.adding /\ form.text = ""
    /\ \E f \in net : f.kind = "fetch" /\ f.origin = "createList" /\ f.phase = "sent"
    /\ store[NewId].present /\ NewId \notin IdSet(items)

\* C16 (toggle writes no position): the step of toggleItem that sends the
\* update changes the local checked flag of the item and nothing else and
\* leaves the store alone; the update, when applied, changes the stored
\* checked flag of that row and nothing else; the rollback changes the local
\* checked flag of the item and nothing else.
C16_ToggleWritesOnlyChecked ==
    [][/\ \A q \in net' \ net :
            (q.kind = "toggle" /\ q.phase = "sent")
            => /\ store' = store
               /\ Len(items') = Len(items)
               /\ \A k \in 1..Len(items) :
                     items'[k] = IF items[k].id = q.id
                                 THEN [items[k] EXCEPT !.checked = ~@]
                                 ELSE items[k]
       /\ \A r \in net \ net' :
            (r.kind = "toggle" /\ r.phase = "sent" /\ Served(r, FALSE, << >>) \in net')
            => \A i \in RowIds :
                  store'[i] = IF i = r.id /\ store[i].present
                              THEN [store[i] EXCEPT !.checked = r.flag]
                              ELSE store[i]
       /\ \A r \in net \ net' :
            (r.kind = "toggle" /\ r.phase = "done")
            => /\ store' = store
               /\ Len(items') = Len(items)
               /\ \A k \in 1..Len(items) :
                     items'[k].id = items[k].id
                     /\ items'[k].position = items[k].position
                     /\ (items[k].id # r.id => items'[k] = items[k])]_vars

\* the update of a toggle has been applied to an item that is not at
\* position 0: its checked flag is the one sent, its position is as before
C16_Witness ==
    \E r \in net :
        /\ r.kind = "toggle" /\ r.phase = "done" /\ ~r.error
        /\ store[r.id].present /\ store[r.id].checked = r.flag
        /\ store[r.id].position > 0

\* C17 (toggle appends to the other partition): when the update of a toggle
\* has moved an item to the other partition, every fetch in the defined sort
\* order returns it in that partition, after every item that was in the
\* partition already.
C17_ToggleAppends ==
    [][\A r \in net \ net' :
          (/\ r.kind = "toggle" /\ r.phase = "sent" /\ Served(r, FALSE, << >>) \in net'
           /\ store[r.id].present /\ store[r.id].checked # r.flag)
          => \A d \in FetchItems(store') :
                \A j, k \in 1..Len(d) :
                   (d[j].id = r.id /\ d[k].id # r.id /\ store[d[k].id].checked = r.flag)
                   => (d[j].checked = r.flag /\ k < j)]_vars

\* C18 (batched full-partition persistence): every write that a reposition
\* issues is one upsert that gives each entity of the affected partition its
\* zero-based index in the local order the gesture has left.
C18_BatchedPartitionWrite ==
    [][\A q \in net' \ net :
          (q.phase = "sent" /\ q.kind \in {"upsert", "setpos"})
          => (q.kind = "upsert" /\ q.rows = PositionUpdates(items', q.part))]_vars

\* C19 (last writer wins): when the store applies the batched upsert of a
\* reposition, every row the upsert names gets the position the upsert gives
\* it, whatever an earlier write of another member had left there, every other
\* row is left as it was, and the request is answered without an error; a
\* reposition of another member that is applied while the client's own is in
\* flight or unanswered overwrites the same way and puts no error in front of
\* the client.
C19_LastWriterWins ==
    [][/\ \A r \in net \ net' :
            (r.kind = "upsert" /\ r.phase = "sent" /\ Served(r, FALSE, << >>) \in net')
            => /\ \A k \in 1..Len(r.rows) :
                     (store[r.rows[k].id].present \/ revision \notin ListRevisions)
                     => store'[r.rows[k].id].position = r.rows[k].position
               /\ \A i \in RowIds :
                     (\A k \in 1..Len(r.rows) : r.rows[k].id # i) => store'[i] = store[i]
       /\ (others' = others + 1 /\ last'.op = "otherReposition")
            => /\ net' = net /\ items' = items
               /\ \E c \in BOOLEAN : \E order \in Orders(store, c) :
                     /\ \A k \in 1..Len(order) : store'[order[k]].position = k - 1
                     /\ \A i \in RowIds :
                           (\A k \in 1..Len(order) : order[k] # i) => store'[i] = store[i]]_vars

\* the client's upsert has been applied and is not yet answered to its
\* handler, another member's reposition has been applied after it, and the
\* store holds a position other than the one the client wrote
C19_Witness ==
    /\ last.op = "otherReposition"
    /\ \E r \in net :
          /\ r.kind = "upsert" /\ r.phase = "done" /\ ~r.error
          /\ \E k \in 1..Len(r.rows) :
                store[r.rows[k].id].present
                /\ store[r.rows[k].id].position # r.rows[k].position

\* C20 (drag splice): a move of an active drag over another entity of the
\* dragged entity's partition that changes the local order puts the dragged
\* entity at the index the target had before the move and leaves the other
\* entities as they were, in the order they were in.
C20_DragSplice ==
    [][(/\ revision = "drag" /\ draggedItem # NoItem /\ draggedItem' = draggedItem
        /\ net' = net /\ items' # items)
       => \E k \in 1..Len(items) :
             /\ items[k].id # draggedItem.id
             /\ items[k].checked = draggedItem.checked
             /\ k <= Len(items') /\ items'[k].id = draggedItem.id
             /\ WithoutId(items', draggedItem.id) = WithoutId(items, draggedItem.id)]_vars

\* C21 (cross-partition drag is ignored): a drag over an item whose checked
\* flag differs from the dragged item's, over the dragged item itself, or
\* with no drag active, leaves the local order as it is; and no move of a
\* drag changes the partition an item of the local order is in.
C21_CrossPartitionDragIgnored ==
    [][/\ \A k \in 1..Len(items) :
            (DragOver(k) /\ DragOverReturns(draggedItem, items[k])) => items' = items
       /\ (/\ revision = "drag" /\ net' = net /\ draggedItem' = draggedItem
           /\ items' # items)
          => \A j \in 1..Len(items), k \in 1..Len(items') :
                items'[k].id = items[j].id => items'[k].checked = items[j].checked]_vars

\* C22 (session gate): when the session check at load finds no session the
\* router is sent to the login page, no user is set and nothing is fetched;
\* when the session ends while the view is mounted the router is sent to the
\* login page.
C22_SessionGate ==
    [][/\ (sessionCheck = "pending" /\ sessionCheck' = "settled" /\ ~session)
          => (route' = "login" /\ ~user' /\ net' = net)
       /\ (session /\ ~session' /\ mounted) => route' = "login"]_vars

\* C23 (subscription scoping): the view has at most one channel, and has one
\* only while it is mounted with its user set; a fetch that a notification
\* triggers is issued by a mounted view, so none is issued after the unmount.
C23_SubscriptionScoping ==
    [][/\ channels' \in {0, 1}
       /\ channels' = 1 => (mounted' /\ user')
       /\ \A q \in net' \ net :
             (q.phase = "sent" /\ q.origin = "realtime") => (mounted /\ user /\ channels = 1)]_vars

\* the view had subscribed its channel and is unmounted, and a notification
\* delivered after the unmount has found no channel
C23_Witness ==
    /\ ~mounted /\ effectUser /\ channels = 0
    /\ last.op = "delivered" /\ ~last.ok

\* C24 (media failure leaves prior media untouched): a request of uploadMedia
\* that fails changes neither the stored nor the local bg_url and
\* custom_icon_url; the handling of the failure shows the error's message,
\* leaves both urls as they are locally and in the store, and sets uploading
\* to null; a successful upload changes the url of its kind and no other, in
\* the store when the update is applied and locally when it is answered.
C24_MediaFailureUntouched ==
    [][/\ \A r \in net \ net' :
            (r.origin = "uploadMedia" /\ r.phase = "sent" /\ Served(r, TRUE, << >>) \in net')
            => (list' = list /\ media' = media)
       /\ \A r \in net \ net' :
            (r.origin = "uploadMedia" /\ r.phase = "done" /\ r.error)
            => /\ list' = list /\ media' = media
               /\ uploading' = "null"
               /\ toast' = Toast(IF r.kind = "upload" THEN "uploadError" ELSE "dbError", "error")
       /\ \A r \in net \ net' :
            (r.origin = "uploadMedia" /\ r.kind = "media" /\ r.phase = "sent"
             /\ Served(r, FALSE, << >>) \in net')
            => (list' = list /\ media' = [media EXCEPT ![r.id] = r.position])
       /\ \A r \in net \ net' :
            (r.origin = "uploadMedia" /\ r.kind = "media" /\ r.phase = "done" /\ ~r.error)
            => (media' = media /\ list' = [list EXCEPT ![r.id] = r.position])
       /\ \A r \in net \ net' :
            (r.kind = "upload") => (list' = list /\ media' = media)]_vars

\* the upload of a file has succeeded, the update of the list's row has
\* failed and the failure has been handled: the message is shown, uploading
\* is null, and the urls are the earlier ones, locally and in the store
C24_Witness ==
    /\ last.op = "uploadFailed" /\ toast = Toast("dbError", "error")
    /\ nfiles > 0 /\ uploading = "null"
    /\ list = [bg |-> 1, icon |-> 1] /\ media = [bg |-> 1, icon |-> 1]

\* what the view holds of item i: whether it is there, and its checked flag
LocalState(s, i) ==
    IF \E k \in 1..Len(s) : s[k].id = i
    THEN [present |-> TRUE, checked |-> s[CHOOSE k \in 1..Len(s) : s[k].id = i].checked]
    ELSE [present |-> FALSE, checked |-> FALSE]

\* the step leaves what the view holds of every other item that has a toggle
\* or a delete in flight
OthersInFlightKept(i) ==
    \A q \in net : (q.kind \in {"toggle", "delete"} /\ q.id # i)
                   => LocalState(items', q.id) = LocalState(items, q.id)

\* C25 (independent entities): the step that issues the remote call of a
\* toggle or delete has applied the local effect; neither that step nor the
\* handling of the operation's failure (the rollback of a toggle, the refetch
\* of a delete) changes what the view holds of another item that has an
\* operation in flight.
C25_IndependentEntities ==
    [][/\ \A q \in net' \ net :
            (q.phase = "sent" /\ q.kind \in {"toggle", "delete"})
            => /\ q.kind = "toggle" => LocalState(items', q.id) = [present |-> TRUE, checked |-> q.flag]
               /\ q.kind = "delete" => ~LocalState(items', q.id).present
               /\ OthersInFlightKept(q.id)
       /\ \A r \in net \ net' :
            (r.phase = "done" /\ r.error /\ r.kind \in {"toggle", "delete"})
            => OthersInFlightKept(r.id)
       /\ \A r \in net \ net' :
            (r.phase = "done" /\ r.kind = "fetch" /\ r.origin = "deleteItem")
            => OthersInFlightKept(r.id)]_vars

\* C26 (derived counts): a list that the collection shows has an
\* unchecked_count that is at most its item_count.
C26_DerivedCounts == shown.listed => shown.unchecked_count <= shown.item_count

\* C27 (cascading delete): in every state the store reaches, memberships and
\* items belong to a list that exists and memberships to an account that
\* exists; a step that deletes a list leaves no membership and no item of
\* it; a step that deletes an account leaves the items it created in lists
\* that survive, with no creator.
C27_CascadingDelete ==
    [][/\ \A l \in ListIds :
            lists'[l] = NoAccount
            => /\ \A a \in Accounts : members'[l, a] = 0
               /\ listRows'[l].item = "none" /\ itemBy'[l] = NoAccount
       /\ \A l \in ListIds, a \in Accounts : members'[l, a] > 0 => a \in profiles'
       /\ \A l \in ListIds : itemBy'[l] # NoAccount => itemBy'[l] \in profiles'
       /\ \A a \in profiles \ profiles' : \A l \in ListIds :
            (lists'[l] # NoAccount /\ itemBy[l] = a)
            => (listRows'[l].item = listRows[l].item /\ listRows'[l].item # "none"
                /\ itemBy'[l] = NoAccount)]_vars

\* the account that created an item has been deleted; the item's list, made
\* by another account, is there, and so is the item, with no creator
C27_Witness ==
    /\ rpc.fn = "delete account"
    /\ \E l \in ListIds :
          /\ lists[l] # NoAccount /\ listRows[l].item # "none" /\ itemBy[l] = NoAccount

\* C28 (share error presentation): when shareList handles a failure, the
\* toast is an error, it is the "user not found" message exactly when the
\* procedure failed because no account has the address, the typed address is
\* kept and sharing is false again.
C28_ShareErrorPresentation ==
    [][\A r \in net \ net' :
          (r.kind = "share" /\ r.phase = "done" /\ r.error)
          => /\ toast'.type = "error"
             /\ toast'.message = "Korystuvacha ne znaideno" <=> r.data = <<"User not found">>
             /\ shareEmail' = shareEmail
             /\ sharing' = FALSE]_vars

\* C29 (bulk clear removes only checked items): when the delete of
\* clearChecked is applied, every item unchecked in the store just before
\* stays; when clearChecked completes, none of the items it named is locally
\* checked and a fetch has been sent; when the confirmation is declined or
\* nothing is checked, nothing is sent and the local items are unchanged.
C29_ClearOnlyChecked ==
    [][/\ \A r \in net \ net' :
            (r.kind = "clear" /\ r.phase = "sent" /\ Served(r, FALSE, << >>) \in net')
            => \A i \in ItemIds :
                 (store[i].present /\ ~store[i].checked) => store'[i].present
       /\ \A r \in net \ net' :
            (r.kind = "clear" /\ r.phase = "done")
            => /\ \A k \in 1..Len(items') :
                    ~(items'[k].checked /\ \E j \in 1..Len(r.rows) : r.rows[j] = items'[k].id)
               /\ \E q \in net' \ net : q.kind = "fetch" /\ q.phase = "sent"
       /\ (last'.op = "clearChecked" /\ ~last'.ok) => (net' = net /\ items' = items)
      ]_vars

\* the step sends the save of a stepwise move
MoveStep ==
    \E q \in net' \ net :
        q.phase = "sent" /\ q.kind = "upsert" /\ q.origin = "saveNewPositions"

\* the place of the entity with this id in s
PlaceOf(s, id) == CHOOSE k \in 1..Len(s) : s[k].id = id

\* t holds the entities of s, each once
PermutationOf(s, t) ==
    /\ Len(t) = Len(s)
    /\ \A k \in 1..Len(s) : \E j \in 1..Len(t) : t[j] = s[k]

\* no entity lies between two entities of the other partition
GroupsContiguous(t) ==
    \A i, j, k \in 1..Len(t) :
        (i < j /\ j < k /\ t[i].checked = t[k].checked) => t[j].checked = t[i].checked

\* s with the entities at places j and j + 1 exchanged
SwapAt(s, j) ==
    [k \in 1..Len(s) |-> IF k = j THEN s[j + 1] ELSE IF k = j + 1 THEN s[j] ELSE s[k]]

\* C30 as stated (stepwise move local effect): a stepwise move that is not
\* at a boundary exchanges the moved entity with its immediate neighbour in
\* its partition, keeps the relative order of all other entities, keeps the
\* collection a permutation, and leaves no entity among those of the other
\* partition.
C30_StepwiseMoveAsStated ==
    [][MoveStep =>
         /\ PermutationOf(items, items')
         /\ GroupsContiguous(items')
         /\ \E a, b \in 1..Len(items) :
              /\ a < b /\ items[a].checked = items[b].checked
              /\ \A k \in (a + 1)..(b - 1) : items[k].checked # items[a].checked
              /\ PlaceOf(items', items[b].id) < PlaceOf(items', items[a].id)
              /\ \E moved \in {a, b} :
                   \A x, y \in 1..Len(items) \ {moved} :
                      x < y => PlaceOf(items', items[x].id) < PlaceOf(items', items[y].id)
      ]_vars

\* C30 (stepwise move local effect, amended): a stepwise move that is not at
\* a boundary exchanges the moved entity with its immediate neighbour in its
\* partition, keeps the order of the other partition and of the rest of its
\* own, keeps the collection a permutation, and leaves all unchecked entities
\* before all checked ones.
C30_StepwiseMoveLocalEffect ==
    [][MoveStep =>
         /\ PermutationOf(items, items')
         /\ items' = Partition(items', FALSE) \o Partition(items', TRUE)
         /\ \E c \in BOOLEAN :
              /\ Partition(items', ~c) = Partition(items, ~c)
              /\ \E j \in 1..(Len(Partition(items, c)) - 1) :
                   Partition(items', c) = SwapAt(Partition(items, c), j)
      ]_vars

\* a move has acted on a collection that a toggle had left interleaved
C30_Witness ==
    /\ revision = "stepwise"
    /\ \E q \in net : q.phase = "sent" /\ q.kind = "upsert" /\ q.origin = "saveNewPositions"
    /\ Ids(items) = <<"C", "B", "A">>
    /\ items[3].checked /\ ~items[1].checked /\ ~items[2].checked

\* the step applies the batched position write r of a reposition
RepositionApplied(r) ==
    /\ r \in net \ net'
    /\ r.kind = "upsert" /\ r.phase = "sent"
    /\ Served(r, FALSE, << >>) \in net'

\* C31 (reposition changes only positions): the batched write of a
\* reposition leaves the checked flag of every stored row as it was in the
\* store immediately before the write.
C31_RepositionOnlyPositions ==
    [][\A r \in net :
          RepositionApplied(r)
          => \A i \in RowIds :
               store[i].present => store'[i].checked = store[i].checked]_vars

\* C32 (creator is immutable): no step changes the creator of a list that
\* exists before and after it, and a delete of a list by an account that is
\* not its creator leaves the list in the store.
C32_CreatorImmutable ==
    [][/\ \A l \in ListIds :
            (lists[l] # NoAccount /\ lists'[l] # NoAccount) => lists'[l] = lists[l]
       /\ (rpc'.fn = "delete lists" /\ ncalls' = ncalls + 1
           /\ lists[rpc'.list] # rpc'.caller)
          => lists'[rpc'.list] = lists[rpc'.list]]_vars

\* C33 (reposition never creates rows): the batched position write of a
\* reposition leaves the set of stored item ids as it was; an item deleted
\* by another collaborator is not created again.
C33_RepositionCreatesNoRow ==
    [][\A r \in net :
          RepositionApplied(r)
          => \A i \in RowIds : store'[i].present = store[i].present]_vars

\* C34 (drag preserves the local collection): a move of an active drag
\* leaves the local collection a permutation of what it was before the move,
\* each entity with the fields it had.
C34_DragPreservesCollection ==
    [][(/\ revision = "drag" /\ draggedItem # NoItem /\ draggedItem' = draggedItem
        /\ net' = net /\ items' # items)
       => PermutationOf(items, items')]_vars

\* C35 (eventual convergence): when nothing is in flight, no change
\* notification is pending and the load is done, the local items are the
\* store's items in the order a fetch returns them.
C35_EventualConvergence == Quiescent => LocalEqualsStore

\* C36 (new items go last): the insert of addItem carries one more than the
\* largest position among the local items (1 when there are none), and the
\* answer to addItem's re-fetch holds the new item after every item that the
\* view held unchecked and that is still unchecked.
C36_NewItemsGoLast ==
    [][/\ \A q \in net' \ net :
            (q.kind = "insert" /\ q.phase = "sent")
            => /\ q.position = MaxPos(items) + 1
               /\ items = << >> => q.position = 1
       /\ \A r \in net \ net' :
            (/\ r.kind = "fetch" /\ r.origin = "addItem" /\ r.phase = "done" /\ ~r.error
             /\ \E k \in 1..Len(r.data) : r.data[k].id = NewId)
            => \A j \in 1..Len(items), k \in 1..Len(r.data) :
                 (/\ items[j].id # NewId /\ ~items[j].checked
                  /\ r.data[k].id = items[j].id /\ ~r.data[k].checked)
                 => k < PlaceOf(r.data, NewId)]_vars

\* C37 (view modes are exclusive): the sorting mode and the editing mode are
\* never both on; while the sorting mode is on no step sends a toggle or a
\* delete or leaves the view; while the editing mode is on no step sends a
\* toggle, and a text editor opens only in the editing mode.
C37_ViewModesExclusive ==
    [][/\ ~(modes'.isSorting /\ modes'.isEditingItems)
       /\ modes.isSorting
          => /\ \A q \in net' \ net : q.phase = "sent" => q.kind \notin {"toggle", "delete"}
             /\ route' = route
       /\ modes.isEditingItems
          => \A q \in net' \ net : q.phase = "sent" => q.kind # "toggle"
       /\ (modes'.editingItemId # modes.editingItemId /\ modes'.editingItemId # NoId)
          => (modes.isEditingItems /\ net' = net /\ items' = items)]_vars

\* in the editing mode the text of an item has been clicked: its editor is
\* open and nothing was sent
C37_Witness ==
    /\ modes.isEditingItems /\ ~modes.isSorting
    /\ modes.editingItemId = "A"
    /\ revision = "stepwise" /\ net = {} /\ nreq = 0

\* C38 (list order is per viewer): when another member reorders its list
\* collection, what a fetch of this account's list collection returns is
\* what it returned before.
C38_ListOrderPerViewer ==
    [][(/\ revision = "lists" /\ others' = others + 1
        /\ last'.op = "otherReposition")
       => FetchListRows(store') = FetchListRows(store)]_vars

\* the worker's fetch listener handles a request in this step
FetchHandled == sw.state = "activated" /\ sw'.last # NoRequest

\* the fetch listener leaves alone what is not a GET or goes to the store's
\* API, and answers any other request from a cache that holds it, without
\* the network; an activated worker has no cache but CACHE_NAME
WorkerAnswers ==
    /\ (FetchHandled /\ (sw'.last.method # "GET" \/ IncludesSupabase(sw'.last.url)))
       => (~sw'.last.answered /\ ~sw'.last.network /\ sw'.entries = sw.entries)
    /\ (/\ FetchHandled /\ sw'.last.method = "GET" /\ ~IncludesSupabase(sw'.last.url)
        /\ Matches(sw.entries, sw'.last.url) # {})
       => (/\ sw'.last.answered /\ sw'.last.source = "cache" /\ ~sw'.last.network
           /\ sw'.entries = sw.entries)
    /\ sw'.state = "activated"
       => (sw'.names \subseteq {CACHE_NAME} /\ \A e \in sw'.entries : e.cache = CACHE_NAME)

\* C39 as stated (service-worker cache safety): the worker never answers a
\* request that is not a GET or whose URL contains 'supabase.co', stores
\* only responses of status 200 and type basic, serves any other GET from a
\* cache that holds it without the network, and after activation only the
\* current cache remains.
C39_CacheSafetyAsStated ==
    [][/\ WorkerAnswers
       /\ \A e \in sw'.entries \ sw.entries : e.status = 200 /\ e.type = "basic"]_vars

\* C39 (service-worker cache safety, amended): as stated, but only the fetch
\* listener stores nothing but responses of status 200 and type basic; the
\* install listener stores the listed assets with whatever ok status they
\* were answered with.
C39_CacheSafety ==
    [][/\ WorkerAnswers
       /\ \A e \in sw'.entries \ sw.entries :
            /\ e.type = "basic" /\ e.cache = CACHE_NAME
            /\ IF sw.state = "activated" THEN e.status = 200
               ELSE e.url \in ASSETS_TO_CACHE /\ AddAllAccepts(e.status)]_vars

\* the activated worker has stored a page it fetched, holds an asset that was
\* answered with status 203 at installation, and has just answered a request
\* from its cache
C39_Witness ==
    /\ sw.state = "activated"
    /\ sw.names = {CACHE_NAME}
    /\ Entry(CACHE_NAME, "/list/1", 200, "basic") \in sw.entries
    /\ Entry(CACHE_NAME, "/icon.svg", 203, "basic") \in sw.entries
    /\ sw.last = Handled("GET", "/list/1", TRUE, "cache", FALSE)

====
